---- MODULE Spec2Model ----
(***************************************************************************)
(* Consent-flow audit of mz-mustafa/cod.                                   *)
(*                                                                         *)
(* DataCollectionService.create_result (src/data_collection.py) drives a  *)
(* BrowserManager (src/browser_manager.py) through pre-consent capture,   *)
(* the accept branch, a browser reset and the reject branch.  The model   *)
(* follows one create_result call on a freshly constructed service, one   *)
(* action per statement group of the code.  Everything the browser        *)
(* answers (navigation, DOM lookups, cookies, the performance log) is an  *)
(* input chosen with \E at the step that reads it.                         *)
(*                                                                         *)
(* Spec follows one call and hands the result to generate_cod_results,    *)
(* SpecService repeated calls on one service.                              *)
(* SpecClassify applies BrowserState.classify_parties to captured states,  *)
(* SpecRegistry makes the lookups of ProviderRegistry                      *)
(* (src/provider_registry.py) on their own.  SpecDetect runs               *)
(* detect_cookie_banner on a page, SpecCapture one get_page_state with the *)
(* request records built from the performance log, and SpecUrls            *)
(* URLProcessor.process_urls (src/url_processor.py).                       *)
(* SpecClick walks click_consent_button over a provider's button ids,      *)
(* SpecReplay restores stored links in a fresh document and replays them,  *)
(* and SpecSession interleaves visit_url and get_page_state on one         *)
(* BrowserManager with its performance log and request_cookie_map.         *)
(***************************************************************************)
EXTENDS Integers, Sequences, FiniteSets, TLC

(***************************************************************************)
(* Bounds of the model.                                                    *)
(***************************************************************************)
\* anchors the page can hold that pass find_meaningful_clickables' filters
MaxAnchors == 1
\* Network.requestWillBeSent entries one driver.get_log call can deliver
MaxNewRequests == 1
\* create_result calls made on one DataCollectionService
MaxCalls == 2
\* cookies and requests of a BrowserState handed to classify_parties
MaxCookies == 1
MaxRequests == 1
\* entries driver.get_log answers with in one capture
MaxLogEntries == 3
\* URLs handed to one process_urls call
MaxUrls == 2
\* captures made on one BrowserManager
MaxCaptures == 2
\* anchors of the page the stored links are looked up in
MaxDomAnchors == 2

\* find_meaningful_clickables(limit=3, ...)
ClickableLimit == 3

(***************************************************************************)
(* Inputs.                                                                 *)
(***************************************************************************)
\* the url_result argument: a URLResult whose destination_url has the given
\* netloc, or an object without URLResult's fields (has_fields = FALSE)
UrlResults ==
  { [has_fields |-> TRUE, netloc |-> "www.example.com"],
    [has_fields |-> TRUE, netloc |-> "localhost"],
    [has_fields |-> FALSE, netloc |-> ""] }

\* element ids that can occur in the page markup
PageSources == { {}, {"onetrust-banner-sdk"} }

\* cookies Network.getAllCookies can answer with: name and domain
CookieJars ==
  { << >>,
    << [name |-> "session", domain |-> "example.com"],
       [name |-> "_ga", domain |-> "google-analytics.com"] >> }

\* what _check_analytics_tags can find
TagSets == { << >>, << [type |-> "gtm", present |-> TRUE] >> }

(***************************************************************************)
(* Provider registry (src/provider_registry.py).                           *)
(***************************************************************************)
NoProvider == "none"

\* ProviderRegistry._providers, in insertion order
ProviderKeys == << "trustarc", "onetrust", "usercentrics" >>

Providers ==
  [ trustarc |->
      [ provider_name |-> "TrustArc",
        banner_ids |-> << "truste-consent-track", "truste-consent-button",
                          "truste-cookie-button" >>,
        reject_button_ids |-> << "reject-all-cookies", "truste-cookie-reject",
                                 "truste-consent-required" >>,
        accept_button_ids |-> << "truste-consent-button",
                                 "truste-cookie-accept",
                                 "truste-consent-button" >>,
        provider_base_domain |-> "trustarc.com" ],
    onetrust |->
      [ provider_name |-> "OneTrust",
        banner_ids |-> << "onetrust-banner-sdk", "onetrust-consent-sdk" >>,
        reject_button_ids |-> << "onetrust-reject-all-handler",
                                 "reject-all-cookies-button" >>,
        accept_button_ids |-> << "onetrust-accept-btn-handler",
                                 "accept-all-cookies-button" >>,
        provider_base_domain |-> "cookielaw.org" ],
    usercentrics |->
      [ provider_name |-> "Usercentrics/Cookiebot",
        banner_ids |-> << "CybotCookiebotDialog" >>,
        reject_button_ids |-> << "CybotCookiebotDialogBodyButtonDecline" >>,
        accept_button_ids |->
          << "CybotCookiebotDialogBodyLevelButtonLevelOptinAllowAll" >>,
        provider_base_domain |-> "cookiebot.com" ] ]

\* a Python bool as the model writes it
BoolStr(b) == IF b THEN "True" ELSE "False"

Range(s) == { s[i] : i \in 1..Len(s) }

\* str.lower() on the identifiers of the model
Lower(s) ==
  CASE s = "CybotCookiebotDialog" -> "cybotcookiebotdialog"
    [] s = "OneTrust-Banner-SDK" -> "onetrust-banner-sdk"
    [] s = "Domain" -> "domain"
    [] OTHER -> s

\* the provider loop comparing the banner ids as written in the signature
RECURSIVE get_provider_from_exact_case(_, _)
get_provider_from_exact_case(i, page_content) ==
  IF i > Len(ProviderKeys) THEN NoProvider
  ELSE IF \E banner_id \in Range(Providers[ProviderKeys[i]].banner_ids) :
            banner_id \in page_content
       THEN ProviderKeys[i]
       ELSE get_provider_from_exact_case(i + 1, page_content)

\* ProviderRegistry.get_provider, the loop: the first registered provider one
\* of whose banner ids, lowered, occurs in the lowered page content
RECURSIVE get_provider_from(_, _)
get_provider_from(i, page_content) ==
  IF i > Len(ProviderKeys) THEN NoProvider
  ELSE IF \E banner_id \in Range(Providers[ProviderKeys[i]].banner_ids) :
            Lower(banner_id) \in page_content
       THEN ProviderKeys[i]
       ELSE get_provider_from(i + 1, page_content)

\* ProviderRegistry.get_provider: page_content is the set of identifiers that
\* occur in the markup
get_provider(page_content) ==
  get_provider_from(1, { Lower(t) : t \in page_content })

(***************************************************************************)
(* Analytics signatures and URL patterns (src/provider_registry.py).       *)
(* A URL is the sequence of its tokens: words and the separators between   *)
(* them.  A pattern is the sequence of the literal pieces its ".*" split   *)
(* it into, each a token sequence, and whether it ends with "$".           *)
(***************************************************************************)
\* ProviderRegistry._analytics_providers, in insertion order
AnalyticsKeys == << "google_analytics", "adobe_analytics" >>

AnalyticsProviders ==
  [ google_analytics |->
      [ provider_name |-> "Google Analytics",
        container_domains |-> << "google-analytics.com",
                                 "googletagmanager.com" >>,
        container_url_patterns |->
          << [ parts |-> << << "google-analytics", ".", "com", "/",
                               "analytics", ".", "js" >> >>,
               anchored |-> TRUE ],
             [ parts |-> << << "googletagmanager", ".", "com", "/", "gtag",
                               "/", "js" >> >>,
               anchored |-> FALSE ],
             [ parts |-> << << "googletagmanager", ".", "com", "/", "gtm",
                               ".", "js" >> >>,
               anchored |-> FALSE ] >>,
        event_domains |-> << "google-analytics.com", "googletagmanager.com" >>,
        event_url_patterns |->
          << [ parts |-> << << "google-analytics", ".", "com", "/",
                               "collect" >> >>,
               anchored |-> FALSE ],
             [ parts |-> << << "google-analytics", ".", "com", "/", "j", "/",
                               "collect" >> >>,
               anchored |-> FALSE ],
             [ parts |-> << << "google-analytics", ".", "com", "/", "r", "/",
                               "collect" >> >>,
               anchored |-> FALSE ],
             [ parts |-> << << "google-analytics", ".", "com", "/", "g", "/",
                               "collect" >> >>,
               anchored |-> FALSE ],
             [ parts |-> << << "stats", ".", "g", ".", "doubleclick", ".",
                               "net" >> >>,
               anchored |-> FALSE ] >> ],
    adobe_analytics |->
      [ provider_name |-> "Adobe Analytics",
        container_domains |-> << "adobetc.com", "adobedtm.com", "omtrdc.net" >>,
        container_url_patterns |->
          << [ parts |-> << << "assets", ".", "adobetc", ".", "com", "/" >>,
                            << ".", "js" >> >>,
               anchored |-> TRUE ],
             [ parts |-> << << "assets", ".", "adobedtm", ".", "com", "/" >>,
                            << ".", "js" >> >>,
               anchored |-> TRUE ],
             [ parts |-> << << "launch-" >>,
                            << ".", "adobedtm", ".", "com" >>,
                            << ".", "js" >> >>,
               anchored |-> TRUE ] >>,
        event_domains |-> << "omtrdc.net", "2o7.net", "adobedc.net" >>,
        event_url_patterns |->
          << [ parts |-> << << ".", "112", ".", "2o7", ".", "net" >> >>,
               anchored |-> FALSE ],
             [ parts |-> << << ".", "sc", ".", "omtrdc", ".", "net", "/", "b",
                               "/", "ss" >> >>,
               anchored |-> FALSE ],
             [ parts |-> << << ".", "demdex", ".", "net", "/", "id" >> >>,
               anchored |-> FALSE ],
             [ parts |-> << << "dpm", ".", "demdex", ".", "net" >> >>,
               anchored |-> FALSE ] >> ] ]

\* piece occurs in s starting at position i
OccursAt(piece, s, i) ==
  /\ i + Len(piece) - 1 <= Len(s)
  /\ SubSeq(s, i, i + Len(piece) - 1) = piece

\* the pieces from the k-th on occur in s in order, the k-th at or after
\* position from; an anchored pattern's last piece ends s
RECURSIVE MatchFrom(_, _, _, _)
MatchFrom(pattern, k, s, from) ==
  \E i \in from..Len(s) :
    /\ OccursAt(pattern.parts[k], s, i)
    /\ IF k = Len(pattern.parts)
       THEN pattern.anchored => i + Len(pattern.parts[k]) - 1 = Len(s)
       ELSE MatchFrom(pattern, k + 1, s, i + Len(pattern.parts[k]))

\* re.search(pattern, url) found a match
re_search(pattern, url) == MatchFrom(pattern, 1, url, 1)

(***************************************************************************)
(* Registrable domains (tld.get_fld) over the domains of the model.        *)
(***************************************************************************)
\* the domain strings of the model and their dot-separated labels
\* (domain.split('.')): a leading dot gives an empty first label
DomainLabels ==
  [ d \in { "", "localhost", "example.com", "www.example.com", ".example.com",
            "cookielaw.org", "cdn.cookielaw.org",
            "google-analytics.com", "www.google-analytics.com",
            "googletagmanager.com", "www.googletagmanager.com",
            "adobetc.com", "adobedtm.com", "assets.adobedtm.com",
            "omtrdc.net", "2o7.net", "adobedc.net",
            "co.uk", "a.co.uk", "www.a.co.uk", "b.co.uk" } |->
      CASE d = "" -> << >>
        [] d = "localhost" -> << "localhost" >>
        [] d = "example.com" -> << "example", "com" >>
        [] d = "www.example.com" -> << "www", "example", "com" >>
        [] d = ".example.com" -> << "", "example", "com" >>
        [] d = "cookielaw.org" -> << "cookielaw", "org" >>
        [] d = "cdn.cookielaw.org" -> << "cdn", "cookielaw", "org" >>
        [] d = "google-analytics.com" -> << "google-analytics", "com" >>
        [] d = "www.google-analytics.com" ->
             << "www", "google-analytics", "com" >>
        [] d = "googletagmanager.com" -> << "googletagmanager", "com" >>
        [] d = "www.googletagmanager.com" ->
             << "www", "googletagmanager", "com" >>
        [] d = "adobetc.com" -> << "adobetc", "com" >>
        [] d = "adobedtm.com" -> << "adobedtm", "com" >>
        [] d = "assets.adobedtm.com" -> << "assets", "adobedtm", "com" >>
        [] d = "omtrdc.net" -> << "omtrdc", "net" >>
        [] d = "2o7.net" -> << "2o7", "net" >>
        [] d = "adobedc.net" -> << "adobedc", "net" >>
        [] d = "co.uk" -> << "co", "uk" >>
        [] d = "a.co.uk" -> << "a", "co", "uk" >>
        [] d = "www.a.co.uk" -> << "www", "a", "co", "uk" >>
        [] d = "b.co.uk" -> << "b", "co", "uk" >> ]

\* '.'.join(labels): the domain string with the given labels
DomainName(labels) ==
  CHOOSE d \in DOMAIN DomainLabels : DomainLabels[d] = labels

\* the public suffixes tld knows, as far as the domains of the model go
PublicSuffixes ==
  { << "com" >>, << "org" >>, << "net" >>, << "uk" >>, << "co", "uk" >> }

\* the last n labels
Suffix(labels, n) == SubSeq(labels, Len(labels) - n + 1, Len(labels))

\* the lengths of the public suffixes the labels end with
SuffixLengths(labels) ==
  { n \in 1..Len(labels) : Suffix(labels, n) \in PublicSuffixes }

Max(S) == CHOOSE n \in S : \A k \in S : k <= n

\* the naive base domain of BrowserState._get_base_domain: the last two
\* labels of a domain of more than two labels
FldTable_last_two_labels ==
  [ d \in { d \in DOMAIN DomainLabels : Len(DomainLabels[d]) >= 2 } |->
      IF Len(DomainLabels[d]) > 2
      THEN DomainName(Suffix(DomainLabels[d], 2))
      ELSE d ]

\* get_fld(d, fix_protocol=True) for every domain it can parse: the longest
\* public suffix the domain ends with and the one label before it
FldTable ==
  [ d \in { d \in DOMAIN DomainLabels :
              /\ SuffixLengths(DomainLabels[d]) # {}
              /\ Max(SuffixLengths(DomainLabels[d])) < Len(DomainLabels[d]) }
      |-> DomainName(Suffix(DomainLabels[d],
                            Max(SuffixLengths(DomainLabels[d])) + 1)) ]

\* get_fld raises on a domain it cannot parse
FldRaises(d) == d \notin DOMAIN FldTable
get_fld(d) == FldTable[d]

\* cookie.get('domain', '').lstrip('.')
RECURSIVE DropEmptyLabels(_)
DropEmptyLabels(labels) ==
  IF labels # << >> /\ Head(labels) = ""
  THEN DropEmptyLabels(Tail(labels))
  ELSE labels

lstrip_dot(d) == DomainName(DropEmptyLabels(DomainLabels[d]))

\* the three flags of a cookie
CookieFlags(cookie, ccm, first, third) ==
  [cookie EXCEPT !.is_ccm_provider = ccm, !.is_first_party = first,
                 !.is_third_party = third]

\* the cookie loop's handler (an unclassified variant and the code's):
\* except Exception: third party
CookieOnParseError_pass(cookie) == cookie

CookieOnParseError(cookie) == CookieFlags(cookie, "False", "False", "True")

\* the cookie loop with one test per flag instead of the if / elif chain
ClassifyCookie_independent_checks(cookie, base_domain, provider_base_domain) ==
  LET cookie_domain == lstrip_dot(cookie.domain)
  IN  IF FldRaises(cookie_domain) THEN CookieOnParseError(cookie)
      ELSE CookieFlags(cookie,
             BoolStr(provider_base_domain # NoProvider
                     /\ get_fld(cookie_domain) = provider_base_domain),
             BoolStr(get_fld(cookie_domain) = base_domain),
             BoolStr(~ (provider_base_domain # NoProvider
                        /\ get_fld(cookie_domain) = provider_base_domain)
                     /\ get_fld(cookie_domain) # base_domain))

\* BrowserState.classify_parties, the cookie loop
ClassifyCookie(cookie, base_domain, provider_base_domain) ==
  LET cookie_domain == lstrip_dot(cookie.domain)
  IN  IF FldRaises(cookie_domain) THEN CookieOnParseError(cookie)
      ELSE IF provider_base_domain # NoProvider
              /\ get_fld(cookie_domain) = provider_base_domain
           THEN CookieFlags(cookie, "True", "False", "False")
      ELSE IF get_fld(cookie_domain) = base_domain
           THEN CookieFlags(cookie, "False", "True", "False")
      ELSE CookieFlags(cookie, "False", "False", "True")

\* a cookie as get_page_state normalises it, before classification
NormalizedCookie(cookie) ==
  [ name |-> cookie.name, domain |-> cookie.domain,
    is_ccm_provider |-> "unset", is_first_party |-> "unset",
    is_third_party |-> "unset" ]

ProviderBaseDomain(provider) ==
  IF provider = NoProvider THEN NoProvider
  ELSE Providers[provider].provider_base_domain

(***************************************************************************)
(* Analytics checks of the registry and request classification.            *)
(***************************************************************************)
\* needle in haystack, for domain strings: the labels of needle occur
\* contiguously among the labels of haystack
DomainContains(haystack, needle) ==
  \E i \in 1..Len(DomainLabels[haystack]) :
    OccursAt(DomainLabels[needle], DomainLabels[haystack], i)

\* any(re.search(pattern, url) for pattern in patterns)
AnyPattern(patterns, url) ==
  \E i \in 1..Len(patterns) : re_search(patterns[i], url)

\* any(d in domain for d in domains)
AnyDomain(domains, domain) ==
  \E i \in 1..Len(domains) : DomainContains(domain, domains[i])

\* the container check without its event-pattern exclusion
is_analytics_container_load_any_match(url, domain) ==
  [ provider_key \in Range(AnalyticsKeys) |->
      LET p == AnalyticsProviders[provider_key]
      IN  /\ AnyDomain(p.container_domains, domain)
          /\ AnyPattern(p.container_url_patterns, url) ]

\* ProviderRegistry.is_analytics_container_load
is_analytics_container_load(url, domain) ==
  [ provider_key \in Range(AnalyticsKeys) |->
      LET p == AnalyticsProviders[provider_key]
      IN  IF AnyDomain(p.container_domains, domain)
          THEN LET is_container == AnyPattern(p.container_url_patterns, url)
                   is_not_event == ~ AnyPattern(p.event_url_patterns, url)
               IN  is_container /\ is_not_event
          ELSE FALSE ]

\* ProviderRegistry.is_analytics_event
is_analytics_event(url, domain) ==
  [ provider_key \in Range(AnalyticsKeys) |->
      LET p == AnalyticsProviders[provider_key]
      IN  IF AnyDomain(p.event_domains, domain)
          THEN AnyPattern(p.event_url_patterns, url)
          ELSE FALSE ]

\* urlparse(url).netloc: what stands between "://" and the next "/", "?"
\* or "#"; empty for a URL without "://"
urlparse_netloc(url) ==
  IF \E i \in 1..Len(url) : url[i] = "://"
  THEN LET start == (CHOOSE i \in 1..Len(url) : url[i] = "://") + 1
           stops == { i \in start..Len(url) : url[i] \in {"/", "?", "#"} }
           stop == IF stops = {} THEN Len(url) + 1
                   ELSE CHOOSE i \in stops : \A j \in stops : i <= j
           IsLabel(t) == t # "."
       IN  DomainName(SelectSeq(SubSeq(url, start, stop - 1), IsLabel))
  ELSE ""

\* NetworkRequest.__init__, with the cookies _get_network_requests found in
\* the request's response
NetworkRequest(url, sets_cookies) ==
  [ url |-> url, domain |-> urlparse_netloc(url),
    is_third_party |-> "None", is_first_party |-> "None",
    is_ccm_provider |-> "None", is_analytics_container |-> "None",
    analytics_provider |-> "None", sets_cookies |-> sets_cookies ]

\* getattr(provider, '_registry', None): detect_cookie_banner attaches the
\* registry to the signature get_provider returned; None has no attribute
ProviderRegistryOf(provider) ==
  IF provider = NoProvider THEN "None" ELSE "registry"

\* the flags of a request
RequestFlags(request, ccm, first, third, container) ==
  [request EXCEPT !.is_ccm_provider = ccm, !.is_first_party = first,
                  !.is_third_party = third,
                  !.is_analytics_container = container]

\* the first provider key, in registry order, whose check matched
FirstMatched(container_results) ==
  AnalyticsKeys[CHOOSE i \in 1..Len(AnalyticsKeys) :
                  /\ container_results[AnalyticsKeys[i]]
                  /\ \A j \in 1..(i - 1) : ~ container_results[AnalyticsKeys[j]]]

\* the else branch with the container check made only for a request that has
\* no analytics_provider yet
ThirdPartyRule_unresolved_only(request, provider_registry) ==
  IF provider_registry # "None"
  THEN LET container_results ==
             is_analytics_container_load(request.url, request.domain)
           is_container ==
             /\ request.analytics_provider = "None"
             /\ \E k \in DOMAIN container_results : container_results[k]
       IN  [ RequestFlags(request, "False", "False", BoolStr(~ is_container),
                          BoolStr(is_container))
               EXCEPT !.analytics_provider =
                 IF is_container
                 THEN AnalyticsProviders[FirstMatched(container_results)]
                        .provider_name
                 ELSE @ ]
  ELSE RequestFlags(request, "False", "False", "True", "False")

\* BrowserState.classify_parties, the request loop's else branch: third
\* party, unless the registry says the request loads an analytics container
ThirdPartyRule(request, provider_registry) ==
  IF provider_registry # "None"
  THEN LET container_results ==
             is_analytics_container_load(request.url, request.domain)
           is_container ==
             \E k \in DOMAIN container_results : container_results[k]
       IN  [ RequestFlags(request, "False", "False", BoolStr(~ is_container),
                          BoolStr(is_container))
               EXCEPT !.analytics_provider =
                 IF is_container
                 THEN AnalyticsProviders[FirstMatched(container_results)]
                        .provider_name
                 ELSE @ ]
  ELSE RequestFlags(request, "False", "False", "True", "False")

\* the request loop testing the page's domain before the provider's
ClassifyRequest_page_first(request, base_domain, provider_base_domain, provider_registry) ==
  IF FldRaises(request.domain)
  THEN RequestFlags(request, "False", "False", "True", "False")
  ELSE IF get_fld(request.domain) = base_domain
       THEN RequestFlags(request, "False", "True", "False", "False")
  ELSE IF provider_base_domain # NoProvider
          /\ get_fld(request.domain) = provider_base_domain
       THEN RequestFlags(request, "True", "False", "False", "False")
  ELSE ThirdPartyRule(request, provider_registry)

\* BrowserState.classify_parties, the request loop
ClassifyRequest(request, base_domain, provider_base_domain, provider_registry) ==
  IF FldRaises(request.domain)
  THEN RequestFlags(request, "False", "False", "True", "False")
  ELSE IF provider_base_domain # NoProvider
          /\ get_fld(request.domain) = provider_base_domain
       THEN RequestFlags(request, "True", "False", "False", "False")
  ELSE IF get_fld(request.domain) = base_domain
       THEN RequestFlags(request, "False", "True", "False", "False")
  ELSE ThirdPartyRule(request, provider_registry)

\* BrowserState.classify_parties, the loop over the cookies a request set
ClassifySetCookie(cookie, base_domain, provider_base_domain) ==
  LET cookie_domain == lstrip_dot(cookie.domain)
      typed(t) == [cookie EXCEPT !.type = t]
  IN  IF FldRaises(cookie_domain) THEN typed("third_party")
      ELSE IF provider_base_domain # NoProvider
              /\ get_fld(cookie_domain) = provider_base_domain
           THEN typed("ccm_provider")
      ELSE IF get_fld(cookie_domain) = base_domain
           THEN typed("first_party")
      ELSE typed("third_party")

\* BrowserState.classify_parties(page_domain, provider) on a BrowserState:
\* whether it raised, and the state it leaves.  get_fld(page_domain) stands
\* before the loops and outside every try.
classify_parties(state, page_domain, provider) ==
  IF FldRaises(page_domain)
  THEN [ raised |-> TRUE, state |-> [state EXCEPT !.page_domain = page_domain] ]
  ELSE LET base_domain == get_fld(page_domain)
           provider_base_domain == ProviderBaseDomain(provider)
           provider_registry == ProviderRegistryOf(provider)
       IN  [ raised |-> FALSE,
             state |->
               [ page_domain |-> page_domain,
                 cookies |->
                   [ i \in 1..Len(state.cookies) |->
                       ClassifyCookie(state.cookies[i], base_domain,
                                      provider_base_domain) ],
                 network_requests |->
                   [ i \in 1..Len(state.network_requests) |->
                       LET r == ClassifyRequest(state.network_requests[i],
                                                base_domain,
                                                provider_base_domain,
                                                provider_registry)
                       IN  [r EXCEPT !.sets_cookies =
                              [ j \in 1..Len(r.sets_cookies) |->
                                  ClassifySetCookie(r.sets_cookies[j],
                                                    base_domain,
                                                    provider_base_domain) ]]
                   ] ] ]

(***************************************************************************)
(* Result structure.                                                       *)
(***************************************************************************)
EmptyNetworkState ==
  [ requests |-> << >>, analytics_tags |-> << >>, request_chains |-> << >> ]

InitConsentAction ==
  [ action_performed |-> FALSE, action_successful |-> FALSE,
    button_found |-> FALSE, error |-> "None" ]

InitInteractionState ==
  [ consent |-> InitConsentAction,
    interactions |-> << >>,
    network_state |-> EmptyNetworkState,
    cookies |-> << >>,
    captured |-> FALSE ]

\* DataCollectionService._initialize_result.  page_landing.state is << >>
\* for None and a one-element sequence once set; errors is the list object
\* result.errors refers to: its own fresh list, or the service's self.errors.
InitialResult ==
  [ bound |-> TRUE,
    ccm_detection |->
      [ banner_found |-> FALSE, provider_name |-> "",
        accessibility_with_banner |-> "None", can_scroll |-> "None",
        accessibility_issues |-> << >> ],
    page_landing |-> [ state |-> << >> ],
    accept_flow |-> InitInteractionState,
    reject_flow |-> InitInteractionState,
    errors |-> "own" ]

Unbound == [ bound |-> FALSE ]

VARIABLES
  pc,              \* position in create_result
  url_result,      \* the argument of create_result
  result,          \* the local variable result (bound = FALSE while unbound)
  errors,          \* DataCollectionService.errors
  browser,         \* DataCollectionService.browser: id of the BrowserManager
  stored_elements, \* DataCollectionService.stored_elements
  provider,        \* provider detected / passed to the branches
  initial_state,   \* local of _capture_pre_consent_state
  managers,        \* BrowserManager objects by id
  alive,           \* ids of the managers whose driver session is open
  hist,            \* browser commands issued so far, in order
  failed,          \* the steps of this call that failed so far
  calls,           \* create_result calls made on the service so far
  earlier,         \* the results earlier calls returned, as returned
  snapshot,        \* the BrowserState classify_parties works on
  classify_args,   \* the page_domain and provider it is called with
  classify_pc,     \* how far the classification of snapshot got
  first_pass,      \* snapshot as the first classify_parties call left it
  query,           \* the arguments of the registry lookups
  reply,           \* what the registry lookups returned, << >> until made
  report,          \* what generate_cod_results made of result, << >> until run
  page,            \* the page detect_cookie_banner looks at
  detected,        \* what detect_cookie_banner returned, << >> until run
  driver,          \* what the browser answers during a get_page_state call
  session,         \* BrowserManager.current_page_domain and the provider
  network_logs,    \* BrowserManager.network_logs
  request_cookie_map, \* BrowserManager.request_cookie_map: request id to
                   \* the position of its NetworkRequest in page_state
  page_state,      \* the BrowserState get_page_state returned, << >> before
  log_errors,      \* the parse errors the capture recorded
  post_flow,       \* the InteractionState the capture is stored in
  flow_errors,     \* DataCollectionService.errors during that
  analysis,        \* _analyze_cookies_and_requests of post_flow, << >> before
  urls,            \* the argument of URLProcessor.process_urls
  next_url,        \* the position of its loop in urls
  results,         \* its local list results
  url_pc,          \* where process_urls stands
  session_log,     \* the requests made on URLProcessor.session, with answers
  consent_call,    \* click_consent_button: its arguments and the DOM it meets
  button_at,       \* the position of its loop in the button ids
  consent_status,  \* its local dictionary result
  tried,           \* the driver commands it issued, in order
  consent_action,  \* the ConsentAction made of what it returned, << >> before
  click_pc,        \* where click_consent_button stands
  stored_links,    \* DataCollectionService.stored_elements before a replay
  fresh_dom,       \* the anchors of the page in the session of the replay
  restored_elements, \* BrowserManager.stored_elements
  replayed,        \* the elements perform_interaction_sequence clicked
  replay_pc,       \* where the replay stands
  visits,          \* visit_url calls made on one BrowserManager so far
  visit_ok,        \* whether the last of them returned True
  captures         \* the _get_network_requests calls made on it: the visit
                   \* they followed, the log entries the driver delivered,
                   \* the list returned and the NetworkRequest objects now

\* the state of repeated calls and of the classifier
svcVars == << calls, earlier >>
clsVars == << snapshot, classify_args, classify_pc, first_pass >>

regVars == << query, reply >>

detVars == << page, detected >>
logVars == << driver, session, network_logs, request_cookie_map, page_state,
              log_errors, post_flow, flow_errors, analysis >>

urlVars == << urls, next_url, results, url_pc, session_log >>

clickVars == << consent_call, button_at, consent_status, tried,
                consent_action, click_pc >>

replayVars == << stored_links, fresh_dom, restored_elements, replayed,
                 replay_pc >>

sessVars == << visits, visit_ok, captures >>

lastVars == << clickVars, replayVars, sessVars >>

\* the state of the functions taken on their own
laterVars == << detVars, logVars, urlVars, lastVars >>

\* what the steps of one create_result call leave alone
aux == << svcVars, clsVars, regVars, laterVars >>

vars == << pc, url_result, result, errors, browser, stored_elements, provider,
           initial_state, managers, alive, hist, failed, report, aux >>

EmptyBrowserState ==
  [ cookies |-> << >>, analytics_tags |-> << >>, network_requests |-> << >> ]

\* BrowserState.__init__, as far as classify_parties reads and writes it
NewBrowserState ==
  [ cookies |-> << >>, network_requests |-> << >>, page_domain |-> "" ]

\* no registry lookup asked for
RegistryIdle ==
  /\ query = [ page_content |-> {}, url |-> << >>, domain |-> "" ]
  /\ reply = [ provider |-> << >>, container |-> << >>, event |-> << >> ]

\* no classification under way
ClassifierIdle ==
  /\ snapshot = NewBrowserState
  /\ classify_args = [ page_domain |-> "", provider |-> NoProvider ]
  /\ classify_pc = "idle"
  /\ first_pass = NewBrowserState

\* no banner detection asked for
DetectIdle ==
  /\ page = [ raised |-> FALSE, page_source |-> {}, displayed |-> {} ]
  /\ detected = << >>

\* request ids of the performance log
RequestIds == { "r1", "r2" }

\* no capture asked for: a BrowserManager as setup_browser leaves it and an
\* InteractionState as _initialize_result makes it
CaptureIdle ==
  /\ driver = [ performance_log |-> << >>, initial_cookies |-> << >>,
                final_cookies |-> << >> ]
  /\ session = [ current_page_domain |-> "None", provider |-> NoProvider ]
  /\ network_logs = << >>
  /\ request_cookie_map = [ id \in RequestIds |-> 0 ]
  /\ page_state = << >>
  /\ log_errors = 0
  /\ post_flow = InitInteractionState
  /\ flow_errors = << >>
  /\ analysis = << >>

\* process_urls not called
UrlProcessorIdle ==
  /\ urls = << >>
  /\ next_url = 1
  /\ results = << >>
  /\ url_pc = "idle"
  /\ session_log = << >>

\* click_consent_button not called
ClickIdle ==
  /\ consent_call = [ provider |-> NoProvider, action |-> "", dom |-> << >> ]
  /\ button_at = 0
  /\ consent_status = [ action |-> "", success |-> FALSE, error |-> "None",
                        button_found |-> FALSE ]
  /\ tried = << >>
  /\ consent_action = << >>
  /\ click_pc = "idle"

\* no replay of stored links asked for
ReplayIdle ==
  /\ stored_links = << >>
  /\ fresh_dom = << >>
  /\ restored_elements = << >>
  /\ replayed = << >>
  /\ replay_pc = "idle"

\* no BrowserManager followed through its visits
SessionIdle ==
  /\ visits = 0
  /\ visit_ok = FALSE
  /\ captures = << >>

LastIdle == ClickIdle /\ ReplayIdle /\ SessionIdle

\* none of the functions taken on their own is under way
LaterIdle == DetectIdle /\ CaptureIdle /\ UrlProcessorIdle /\ LastIdle

\* BrowserManager.__init__ / setup_browser
NewManager ==
  [ network_logs |-> << >>, current_page_domain |-> "None",
    current_provider |-> "unset", stored_elements |-> << >> ]

Log(ev, s) ==
  hist' = Append(hist, [ev |-> ev, session |-> s, handle |-> s])

Init ==
  /\ pc = "create_result"
  /\ url_result \in UrlResults
  /\ result = Unbound
  /\ errors = << >>
  /\ browser = 1
  /\ stored_elements = << >>
  /\ provider = NoProvider
  /\ initial_state = EmptyBrowserState
  /\ managers = << NewManager >>
  /\ alive = {1}
  /\ hist = << [ev |-> "new", session |-> 1, handle |-> 1] >>
  /\ failed = {}
  /\ calls = 1
  /\ earlier = << >>
  /\ report = << >>
  /\ ClassifierIdle
  /\ RegistryIdle
  /\ LaterIdle

(***************************************************************************)
(* DataCollectionService.generate_cod_results and get_flag_metadata.       *)
(* Flag values are written "True", "False" and "None" as elsewhere.        *)
(***************************************************************************)
\* get_flag_metadata, the interpretations table: the stage of each flag and
\* the outlook of its two values
Interpretations ==
  [ PAGE_NOT_INTERACTABLE |->
      [ stage |-> "pre-consent", True |-> "Positive", False |-> "Negative" ],
    PAGE_SCROLLABLE |->
      [ stage |-> "pre-consent", True |-> "Positive", False |-> "Neutral" ],
    FIRST_PARTY_COOKIES |->
      [ stage |-> "both", True |-> "Neutral", False |-> "Positive" ],
    CCM_PROVIDER_COOKIES |->
      [ stage |-> "both", True |-> "Positive", False |-> "Positive" ],
    NO_THIRD_PARTY_COOKIES |->
      [ stage |-> "both", True |-> "Positive", False |-> "Negative" ],
    FIRST_PARTY_REQUESTS |->
      [ stage |-> "both", True |-> "Neutral", False |-> "Positive" ],
    CCM_PROVIDER_REQUESTS |->
      [ stage |-> "both", True |-> "Positive", False |-> "Positive" ],
    NO_THIRD_PARTY_REQUESTS |->
      [ stage |-> "both", True |-> "Positive", False |-> "Negative" ],
    ANALYTICS_LIBRARY_LOADS |->
      [ stage |-> "both", True |-> "Positive", False |-> "Neutral" ] ]

\* DataCollectionService.get_flag_metadata(flag_name, value, stage): the
\* value and outlook of the dictionary it returns; flag_info[value] is a
\* KeyError for a value that is neither True nor False
get_flag_metadata(flag_name, value, stage) ==
  IF flag_name \notin DOMAIN Interpretations
  THEN [ raised |-> FALSE, value |-> value, outlook |-> "Unknown" ]
  ELSE LET flag_info == Interpretations[flag_name]
       IN  IF flag_info.stage # "both" /\ flag_info.stage # stage
           THEN [ raised |-> FALSE, value |-> value,
                  outlook |-> "Not Applicable" ]
           ELSE IF value \notin {"True", "False"}
           THEN [ raised |-> TRUE, value |-> value, outlook |-> "KeyError" ]
           ELSE [ raised |-> FALSE, value |-> value,
                  outlook |-> flag_info[value] ]

\* d.get(key, False) is truthy, for a dictionary whose flags are "True",
\* "False", "None" or missing
Truthy(d, key) == key \in DOMAIN d /\ d[key] = "True"

\* [x for x in xs if x.get(key, False)]
Flagged(xs, key) == { i \in 1..Len(xs) : Truthy(xs[i], key) }

\* the roll-up that counts the third-party cookies present
NoThirdPartyValue_any_present(state_cookies) ==
  BoolStr(Flagged(state_cookies, "is_third_party") # {})

\* len(third_party_cookies) == 0
NoThirdPartyValue(state_cookies) ==
  BoolStr(Flagged(state_cookies, "is_third_party") = {})

\* generate_cod_results, _analyze_cookies_and_requests(state_cookies,
\* state_network, stage): the seven roll-ups of one phase
_analyze_cookies_and_requests(state_cookies, state_network, stage) ==
  LET requests == state_network.requests
      present(xs, key) == BoolStr(Flagged(xs, key) # {})
      absent(xs, key) == BoolStr(Flagged(xs, key) = {})
  IN  [ firstPartyCookies |->
          get_flag_metadata("FIRST_PARTY_COOKIES",
                            present(state_cookies, "is_first_party"), stage),
        ccmProviderCookies |->
          get_flag_metadata("CCM_PROVIDER_COOKIES",
                            present(state_cookies, "is_ccm_provider"), stage),
        noThirdPartyCookies |->
          get_flag_metadata("NO_THIRD_PARTY_COOKIES",
                            NoThirdPartyValue(state_cookies), stage),
        firstPartyRequests |->
          get_flag_metadata("FIRST_PARTY_REQUESTS",
                            present(requests, "is_first_party"), stage),
        ccmProviderRequests |->
          get_flag_metadata("CCM_PROVIDER_REQUESTS",
                            present(requests, "is_ccm_provider"), stage),
        noThirdPartyRequests |->
          get_flag_metadata("NO_THIRD_PARTY_REQUESTS",
                            absent(requests, "is_third_party"), stage),
        analyticsLibraryLoads |->
          get_flag_metadata("ANALYTICS_LIBRARY_LOADS",
                            present(requests, "is_analytics_library"),
                            stage),
        networkChains |-> state_network.request_chains ]

\* the roll-up names of a phase
RollUps ==
  { "firstPartyCookies", "ccmProviderCookies", "noThirdPartyCookies",
    "firstPartyRequests", "ccmProviderRequests", "noThirdPartyRequests",
    "analyticsLibraryLoads" }

\* some get_flag_metadata call of the phase analysis raised
AnalysisRaises(a) == \E k \in RollUps : a[k].raised

\* Python's not on a flag value: None is falsy
PyNot(value) == BoolStr(value # "True")

\* DataCollectionService.generate_cod_results(result): whether it raised and
\* the preConsent, onAccept and onReject parts of the analysis it returns.
\* result.page_landing.get('state', {}) is None while the state is unset,
\* and None has no get.
generate_cod_results(res) ==
  IF res.page_landing.state = << >>
  THEN [ raised |-> TRUE ]
  ELSE LET pre_consent_state == res.page_landing.state[1]
           pre_consent_analysis ==
             _analyze_cookies_and_requests(pre_consent_state.cookies,
                                           pre_consent_state.network_state,
                                           "pre-consent")
           accept_analysis ==
             _analyze_cookies_and_requests(res.accept_flow.cookies,
                                           res.accept_flow.network_state,
                                           "post-consent")
           reject_analysis ==
             _analyze_cookies_and_requests(res.reject_flow.cookies,
                                           res.reject_flow.network_state,
                                           "post_consent")
           pageNotInteractable ==
             get_flag_metadata("PAGE_NOT_INTERACTABLE",
                               PyNot(res.ccm_detection
                                        .accessibility_with_banner),
                               "pre-consent")
           pageScrollable ==
             get_flag_metadata("PAGE_SCROLLABLE",
                               res.ccm_detection.can_scroll, "pre-consent")
       IN  IF \/ AnalysisRaises(pre_consent_analysis)
              \/ AnalysisRaises(accept_analysis)
              \/ AnalysisRaises(reject_analysis)
              \/ pageNotInteractable.raised
              \/ pageScrollable.raised
           THEN [ raised |-> TRUE ]
           ELSE [ raised |-> FALSE,
                  banner_found |-> res.ccm_detection.banner_found,
                  pageNotInteractable |-> pageNotInteractable,
                  pageScrollable |-> pageScrollable,
                  preConsent |-> pre_consent_analysis,
                  onAccept |-> accept_analysis,
                  onReject |-> reject_analysis ]

(***************************************************************************)
(* BrowserManager operations.                                              *)
(***************************************************************************)
ErrVisit == "Failed to visit URL"
ErrPreConsent == "Error in pre-consent capture"
ErrScroll == "Page scrolling is blocked (UX issue)"
ErrClickable == "Element is clickable at pre-consent stage"
ErrProcessing == "Error processing URL"
ErrFlow(action) == IF action = "accept" THEN "Error in accept flow"
                   ELSE "Error in reject flow"

\* BrowserManager.visit_url: what driver.get and the readyState wait can do
\* in manager m.  A closed session fails every driver command.
VisitOutcomes(m) ==
  IF m \in alive THEN {"ok", "get_failed", "load_timeout"} ELSE {"get_failed"}

\* a visit that leaves network_logs as they are
visit_url_keeps_logs(mgr, netloc, outcome) ==
  CASE outcome = "get_failed" -> mgr
    [] outcome = "load_timeout" -> [mgr EXCEPT !.current_page_domain = netloc]
    [] outcome = "ok" -> [mgr EXCEPT !.current_page_domain = netloc]

\* the manager after visit_url(url) with the given outcome
visit_url(mgr, netloc, outcome) ==
  CASE outcome = "get_failed" -> mgr
    [] outcome = "load_timeout" -> [mgr EXCEPT !.current_page_domain = netloc]
    [] outcome = "ok" -> [mgr EXCEPT !.current_page_domain = netloc,
                                     !.network_logs = << >>]

\* detection that trusts the markup: the identified provider, whatever the
\* DOM shows
detect_cookie_banner_markup_only(raised, page_source, displayed) ==
  IF raised THEN NoProvider ELSE get_provider(page_source)

\* BrowserManager.detect_cookie_banner: page_source is the set of element ids
\* in the markup, displayed the ids whose element is present and displayed
detect_cookie_banner(raised, page_source, displayed) ==
  IF raised THEN NoProvider
  ELSE LET p == get_provider(page_source)
       IN  IF p # NoProvider
              /\ Range(Providers[p].banner_ids) \cap displayed # {}
           THEN p
           ELSE NoProvider

\* the entries n Network.requestWillBeSent events add to network_logs: the
\* request ids continue the log
NewLogs(logs, n) == [ i \in 1..n |-> Len(logs) + i ]

\* BrowserManager._get_network_requests over network_logs: one NetworkRequest
\* per request-initiated entry, classification flags still None
NetworkRequests(logs) ==
  [ i \in 1..Len(logs) |-> [ request_id |-> logs[i], classified |-> FALSE ] ]

\* where get_page_state can raise in manager m: nowhere, at the first
\* Network.getAllCookies, or at driver.get_log
CaptureFailures(m) ==
  IF m \in alive THEN {"none", "cookies", "log"} ELSE {"cookies"}

\* BrowserManager.get_page_state: the BrowserState it returns
get_page_state(mgr, prov, fail, jar, tags, n) ==
  LET logs == mgr.network_logs \o NewLogs(mgr.network_logs, n)
      raw == [ i \in 1..Len(jar) |-> NormalizedCookie(jar[i]) ]
      dom == mgr.current_page_domain
  IN  CASE fail = "cookies" -> EmptyBrowserState
        [] fail = "log" ->
             [ cookies |-> raw, analytics_tags |-> tags,
               network_requests |-> << >> ]
        [] OTHER ->
             IF dom = "None" \/ FldRaises(dom)
             THEN [ cookies |-> raw, analytics_tags |-> tags,
                    network_requests |-> NetworkRequests(logs) ]
             ELSE [ cookies |->
                      [ i \in 1..Len(raw) |->
                          ClassifyCookie(raw[i], get_fld(dom),
                                         ProviderBaseDomain(prov)) ],
                    analytics_tags |-> tags,
                    network_requests |->
                      [ i \in 1..Len(logs) |->
                          [ request_id |-> logs[i], classified |-> TRUE ] ] ]

\* get_page_state caught an exception: a driver command raised, or get_fld
\* could not parse the page domain in classify_parties
CaptureRaises(mgr, fail) ==
  \/ fail # "none"
  \/ mgr.current_page_domain # "None" /\ FldRaises(mgr.current_page_domain)

\* the manager after get_page_state: network_logs extended by the new entries
\* unless the call raised before or at driver.get_log
AfterCapture(mgr, fail, n) ==
  IF fail = "none"
  THEN [mgr EXCEPT !.network_logs = @ \o NewLogs(@, n)]
  ELSE mgr

\* DataCollectionService._create_network_state reads req.is_analytics_library
\* of every request, an attribute NetworkRequest does not define
CreateNetworkStateRaises(state) == Len(state.network_requests) > 0

_create_network_state(state) ==
  [ requests |-> << >>, analytics_tags |-> state.analytics_tags,
    request_chains |-> << >> ]

\* the anchors find_meaningful_clickables returns in session s
Anchor(i, s) ==
  [ element |-> s, text |-> "link", href |-> i, opens_new_tab |-> (i % 2 = 0) ]

Min(a, b) == IF a < b THEN a ELSE b

find_meaningful_clickables(limit, anchors, s) ==
  [ i \in 1..Min(limit, anchors) |-> Anchor(i, s) ]

\* BrowserManager.check_site_accessibility
check_site_accessibility(can_scroll, clickable) ==
  [ is_accessible |-> clickable,
    can_scroll |-> can_scroll,
    issues |-> (IF can_scroll THEN << >> ELSE << ErrScroll >>)
               \o (IF clickable THEN << ErrClickable >> ELSE << >>) ]

\* BrowserManager.click_consent_button: the status it returns
ClickOutcomes(m) ==
  IF m \in alive THEN {"clicked", "no_button", "click_raised", "find_raised"}
  ELSE {"find_raised"}

\* a ConsentAction that counts only a click that went through as performed
click_consent_button_performed_on_success(outcome) ==
  [ action_performed |-> outcome = "clicked",
    action_successful |-> outcome = "clicked",
    button_found |-> outcome \in {"clicked", "click_raised"},
    error |-> CASE outcome = "clicked" -> "None"
                [] outcome = "no_button" -> "No visible button found"
                [] OTHER -> "Error clicking button" ]

click_consent_button(outcome) ==
  [ action_performed |-> TRUE,
    action_successful |-> outcome = "clicked",
    button_found |-> outcome \in {"clicked", "click_raised"},
    error |-> CASE outcome = "clicked" -> "None"
                [] outcome = "no_button" -> "No visible button found"
                [] OTHER -> "Error clicking button" ]

(***************************************************************************)
(* DataCollectionService.create_result, step by step.                      *)
(***************************************************************************)
Flow(action) == IF action = "accept" THEN result.accept_flow
                ELSE result.reject_flow

\* one InteractionState object behind both accept_flow and reject_flow
WithFlow_shared_flow(action, flow) ==
  [result EXCEPT !.accept_flow = flow, !.reject_flow = flow]

WithFlow(action, flow) ==
  IF action = "accept" THEN [result EXCEPT !.accept_flow = flow]
  ELSE [result EXCEPT !.reject_flow = flow]

\* mutant of NextAfterPreConsent: the `if provider:` guard dropped
NextAfterPreConsent_unguarded(prov) == "accept_click"

\* create_result line 141: `if provider:` decides whether the branches run
NextAfterPreConsent(prov) ==
  IF prov # NoProvider THEN "accept_click" ELSE "finalize"

\* result = self._initialize_result(url_result)
InitializeResult ==
  /\ pc = "create_result"
  /\ IF url_result.has_fields
     THEN /\ result' = InitialResult
          /\ pc' = "pre_visit"
     ELSE /\ result' = result
          /\ pc' = "except"
  /\ failed' = IF url_result.has_fields THEN failed
               ELSE failed \cup {"initialize"}
  /\ UNCHANGED << aux, report, url_result, errors, browser, stored_elements, provider,
                  initial_state, managers, alive, hist >>

\* _capture_pre_consent_state: self.browser.visit_url(...); on failure the
\* error goes to self.errors and create_result returns the result
VisitUrlPre ==
  /\ pc = "pre_visit"
  /\ \E outcome \in VisitOutcomes(browser) :
       /\ managers' = [managers EXCEPT
                         ![browser] = visit_url(@, url_result.netloc, outcome)]
       /\ IF outcome = "ok"
          THEN /\ Log("visit", browser)
               /\ errors' = errors
               /\ failed' = failed
               /\ pc' = "detect"
          ELSE /\ hist' = hist
               /\ errors' = Append(errors, ErrVisit)
               /\ failed' = failed \cup {"visit"}
               /\ pc' = "returned"
  /\ UNCHANGED << aux, report, url_result, result, browser, stored_elements, provider,
                  initial_state, alive >>

\* provider = self.browser.detect_cookie_banner();
\* self.browser.current_provider = provider
DetectCookieBanner ==
  /\ pc = "detect"
  /\ \E raised \in BOOLEAN, page_source \in PageSources :
       \E displayed \in SUBSET page_source :
         /\ provider' = detect_cookie_banner(raised, page_source, displayed)
         /\ managers' = [managers EXCEPT
                           ![browser].current_provider = provider']
         /\ failed' = IF raised THEN failed \cup {"detect"} ELSE failed
  /\ Log("detect", browser)
  /\ pc' = "pre_state"
  /\ UNCHANGED << aux, report, url_result, result, errors, browser, stored_elements,
                  initial_state, alive >>

\* initial_state = self.browser.get_page_state(provider)
GetPageStatePre ==
  /\ pc = "pre_state"
  /\ \E fail \in CaptureFailures(browser), jar \in CookieJars,
        tags \in TagSets, n \in 0..MaxNewRequests :
       /\ initial_state' =
            get_page_state(managers[browser], provider, fail, jar, tags, n)
       /\ managers' = [managers EXCEPT ![browser] = AfterCapture(@, fail, n)]
       /\ failed' = IF CaptureRaises(managers[browser], fail)
                    THEN failed \cup {"capture"} ELSE failed
  /\ pc' = "clickables"
  /\ UNCHANGED << aux, report, url_result, result, errors, browser, stored_elements,
                  provider, alive, hist >>

\* clickable_elements = self.browser.find_meaningful_clickables(limit=3, ...);
\* self.stored_elements = clickable_elements; result.ccm_detection.update(...)
FindMeaningfulClickables ==
  /\ pc = "clickables"
  /\ \E anchors \in 0..MaxAnchors :
       stored_elements' =
         find_meaningful_clickables(ClickableLimit, anchors, browser)
  /\ result' = [result EXCEPT
                  !.ccm_detection.banner_found = (provider # NoProvider),
                  !.ccm_detection.provider_name =
                     IF provider # NoProvider
                     THEN Providers[provider].provider_name ELSE ""]
  /\ pc' = IF provider # NoProvider THEN "accessibility" ELSE "page_landing"
  /\ UNCHANGED << aux, report, url_result, errors, browser, provider, initial_state,
                  managers, alive, hist, failed >>

\* if provider: accessibility_results = check_site_accessibility(...);
\* the issues go to self.errors when the page is not accessible
CheckSiteAccessibility ==
  /\ pc = "accessibility"
  /\ \E can_scroll \in BOOLEAN,
        clickable \in (IF stored_elements # << >> THEN BOOLEAN ELSE {FALSE}) :
       LET res == check_site_accessibility(can_scroll, clickable)
       IN  /\ result' = [result EXCEPT
                  !.ccm_detection.accessibility_with_banner =
                     BoolStr(res.is_accessible),
                  !.ccm_detection.can_scroll = BoolStr(res.can_scroll),
                  !.ccm_detection.accessibility_issues = res.issues]
           /\ errors' = IF res.is_accessible THEN errors
                        ELSE errors \o res.issues
  /\ pc' = "page_landing"
  /\ UNCHANGED << aux, report, url_result, browser, stored_elements, provider,
                  initial_state, managers, alive, hist, failed >>

\* result.page_landing.update({... self._create_network_state(initial_state)
\* ...}); return bool(initial_state).  An exception is appended to
\* self.errors, the function returns False and create_result returns.
\* Otherwise create_result reads self.browser.current_provider and branches.
UpdatePageLanding ==
  /\ pc = "page_landing"
  /\ IF CreateNetworkStateRaises(initial_state)
     THEN /\ errors' = Append(errors, ErrPreConsent)
          /\ result' = result
          /\ provider' = provider
          /\ failed' = failed \cup {"network_state"}
          /\ pc' = "returned"
     ELSE /\ errors' = errors
          /\ result' = [result EXCEPT !.page_landing.state =
               << [ cookies |-> initial_state.cookies,
                    network_state |-> _create_network_state(initial_state),
                    analytics_tags |-> initial_state.analytics_tags,
                    clickable_elements |->
                      [ i \in 1..Len(stored_elements) |->
                          [ text |-> stored_elements[i].text,
                            href |-> stored_elements[i].href,
                            opens_new_tab |->
                              stored_elements[i].opens_new_tab ] ] ] >>]
          /\ provider' = managers[browser].current_provider
          /\ failed' = failed
          /\ pc' = NextAfterPreConsent(managers[browser].current_provider)
  /\ UNCHANGED << aux, report, url_result, browser, stored_elements, initial_state,
                  managers, alive, hist >>

\* position of a step of _capture_post_consent_state(provider, result, action)
PcOf(action, step) ==
  CASE action = "accept" /\ step = "click" -> "accept_click"
    [] action = "accept" /\ step = "replay" -> "accept_replay"
    [] action = "accept" /\ step = "capture" -> "accept_capture"
    [] action = "reject" /\ step = "click" -> "reject_click"
    [] action = "reject" /\ step = "replay" -> "reject_replay"
    [] action = "reject" /\ step = "capture" -> "reject_capture"

\* where create_result continues after _capture_post_consent_state returns
AfterBranch(action) == IF action = "accept" THEN "reset_cleanup" ELSE "finalize"

\* consent_status = self.browser.click_consent_button(provider, action);
\* flow.consent = ConsentAction(action_performed=True, ...)
ClickConsentButton(action) ==
  /\ pc = PcOf(action, "click")
  /\ \E outcome \in (IF provider = NoProvider THEN {"find_raised"}
                     ELSE ClickOutcomes(browser)) :
       /\ result' = WithFlow(action,
                      [Flow(action) EXCEPT
                         !.consent = click_consent_button(outcome)])
       /\ failed' = IF outcome = "clicked" THEN failed
                    ELSE failed \cup {"click"}
       /\ hist' = IF outcome = "clicked"
                  THEN Append(hist, [ev |-> action, session |-> browser,
                                     handle |-> browser])
                  ELSE hist
       /\ pc' = IF outcome = "clicked" /\ stored_elements # << >>
                THEN PcOf(action, "replay") ELSE PcOf(action, "capture")
  /\ managers' = [managers EXCEPT ![browser].current_provider = provider]
  /\ UNCHANGED << aux, report, url_result, errors, browser, stored_elements, provider,
                  initial_state, alive >>

\* BrowserManager.restore_elements: the stored links whose anchor is found,
\* displayed and enabled in the current session, with the element found there
RECURSIVE restore_elements(_, _, _)
restore_elements(infos, found, s) ==
  IF infos = << >> THEN << >>
  ELSE LET rest == restore_elements(Tail(infos), Tail(found), s)
       IN  IF Head(found)
           THEN << [Head(infos) EXCEPT !.element = s] >> \o rest
           ELSE rest

\* self.browser.restore_elements(self.stored_elements);
\* flow.interactions = self.browser.perform_interaction_sequence().
\* raise_at = k > 0: driver.current_url raises for the k-th element, outside
\* the per-element try, and the except clause of _capture_post_consent_state
\* records the error and skips the final capture.
ReplayInteractions(action) ==
  /\ pc = PcOf(action, "replay")
  /\ \E found \in [1..Len(stored_elements) ->
                     (IF browser \in alive THEN BOOLEAN ELSE {FALSE})] :
       LET restored == restore_elements(stored_elements, found, browser)
           clicks(k) == [ i \in 1..k |->
                            [ev |-> "link", session |-> browser,
                             handle |-> restored[i].element] ]
       IN  /\ managers' = [managers EXCEPT
                             ![browser].stored_elements = restored]
           /\ \E raise_at \in 0..Len(restored),
                 ok \in [1..Len(restored) -> BOOLEAN] :
                IF raise_at > 0
                THEN /\ hist' = hist \o clicks(raise_at - 1)
                     /\ errors' = Append(errors, ErrFlow(action))
                     /\ result' = result
                     /\ failed' = failed \cup {"replay"}
                     /\ pc' = AfterBranch(action)
                ELSE /\ hist' = hist \o clicks(Len(restored))
                     /\ errors' = errors
                     /\ failed' = failed
                     /\ result' = WithFlow(action,
                          [Flow(action) EXCEPT !.interactions =
                             [ i \in 1..Len(restored) |->
                                 [ href |-> restored[i].href,
                                   element_text |-> restored[i].text,
                                   success |-> ok[i] ] ] ])
                     /\ pc' = PcOf(action, "capture")
  /\ UNCHANGED << aux, report, url_result, browser, stored_elements, provider,
                  initial_state, alive >>

\* final_state = self.browser.get_page_state(provider=provider);
\* flow.network_state = self._create_network_state(final_state);
\* flow.cookies = final_state.cookies; flow.timestamp = time.time()
CapturePostState(action) ==
  /\ pc = PcOf(action, "capture")
  /\ \E fail \in CaptureFailures(browser), jar \in CookieJars,
        tags \in TagSets, n \in 0..MaxNewRequests :
       LET final_state ==
             get_page_state(managers[browser], provider, fail, jar, tags, n)
       IN  /\ managers' = [managers EXCEPT
                             ![browser] = AfterCapture(@, fail, n)]
           /\ failed' = failed
                \cup (IF CaptureRaises(managers[browser], fail)
                      THEN {"capture"} ELSE {})
                \cup (IF CreateNetworkStateRaises(final_state)
                      THEN {"network_state"} ELSE {})
           /\ IF CreateNetworkStateRaises(final_state)
              THEN /\ errors' = Append(errors, ErrFlow(action))
                   /\ result' = result
              ELSE /\ errors' = errors
                   /\ result' = WithFlow(action,
                        [Flow(action) EXCEPT
                           !.network_state = _create_network_state(final_state),
                           !.cookies = final_state.cookies,
                           !.captured = TRUE])
  /\ pc' = AfterBranch(action)
  /\ UNCHANGED << aux, report, url_result, browser, stored_elements, provider,
                  initial_state, alive, hist >>

\* mutant of cleanup: driver.quit() is never issued
cleanup_without_quit(m) ==
  /\ alive' = alive
  /\ hist' = hist

\* BrowserManager.cleanup: driver.quit(), an exception of which is swallowed
cleanup(m) ==
  /\ alive' = alive \ {m}
  /\ hist' = Append(hist, [ev |-> "quit", session |-> m, handle |-> m])

\* mutant of ResetCleanup: the old session is left open at the reset
ResetCleanup_skipped ==
  /\ pc = "reset_cleanup"
  /\ pc' = "reset_construct"
  /\ UNCHANGED << aux, report, url_result, result, errors, browser, stored_elements,
                  provider, initial_state, managers, alive, hist, failed >>

\* self.browser.cleanup()   (reset for the reject flow)
ResetCleanup ==
  /\ pc = "reset_cleanup"
  /\ cleanup(browser)
  /\ pc' = "reset_construct"
  /\ UNCHANGED << aux, report, url_result, result, errors, browser, stored_elements,
                  provider, initial_state, managers, failed >>

\* self.browser = BrowserManager(self.browser.provider_registry).
\* setup_browser can raise at webdriver.Chrome(...) (no session exists) or at
\* execute_cdp_cmd (the session exists, the manager is never assigned).
ResetConstruct ==
  /\ pc = "reset_construct"
  /\ \E outcome \in {"ok", "chrome_failed", "cdp_failed"} :
       LET id == Len(managers) + 1
       IN  CASE outcome = "ok" ->
                  /\ managers' = Append(managers, NewManager)
                  /\ alive' = alive \cup {id}
                  /\ hist' = Append(hist, [ev |-> "new", session |-> id,
                                           handle |-> id])
                  /\ browser' = id
                  /\ failed' = failed
                  /\ pc' = "reject_visit"
             [] outcome = "cdp_failed" ->
                  /\ managers' = Append(managers, NewManager)
                  /\ alive' = alive \cup {id}
                  /\ hist' = Append(hist, [ev |-> "new", session |-> id,
                                           handle |-> id])
                  /\ browser' = browser
                  /\ failed' = failed \cup {"reset"}
                  /\ pc' = "except"
             [] outcome = "chrome_failed" ->
                  /\ UNCHANGED << managers, alive, hist, browser >>
                  /\ failed' = failed \cup {"reset"}
                  /\ pc' = "except"
  /\ UNCHANGED << aux, report, url_result, result, errors, stored_elements, provider,
                  initial_state >>

\* BrowserManager.__del__ of a manager nothing refers to any more
DelManager ==
  /\ \E m \in alive \ {browser} : cleanup(m)
  /\ UNCHANGED << aux, report, pc, url_result, result, errors, browser, stored_elements,
                  provider, initial_state, managers, failed >>

\* if self.browser.visit_url(url_result.destination_url): reject flow
RejectVisit ==
  /\ pc = "reject_visit"
  /\ \E outcome \in VisitOutcomes(browser) :
       /\ managers' = [managers EXCEPT
                         ![browser] = visit_url(@, url_result.netloc, outcome)]
       /\ IF outcome = "ok"
          THEN /\ hist' = Append(hist, [ev |-> "visit", session |-> browser,
                                        handle |-> browser])
               /\ failed' = failed
               /\ pc' = "reject_click"
          ELSE /\ hist' = hist
               /\ failed' = failed \cup {"re_navigation"}
               /\ pc' = "finalize"
  /\ UNCHANGED << aux, report, url_result, result, errors, browser, stored_elements,
                  provider, initial_state, alive >>

\* result.errors = self.errors; self.browser.cleanup(); return result
Finalize ==
  /\ pc = "finalize"
  /\ result' = [result EXCEPT !.errors = "self.errors"]
  /\ cleanup(browser)
  /\ pc' = "returned"
  /\ UNCHANGED << aux, report, url_result, errors, browser, stored_elements, provider,
                  initial_state, managers, failed >>

\* except Exception as e: self.errors.append(f"... {url_result.destination_url}
\* ..."); return result.  Evaluating the message raises when url_result has
\* no destination_url, returning raises when result was never bound.
ExceptHandler ==
  /\ pc = "except"
  /\ IF url_result.has_fields /\ result.bound
     THEN /\ errors' = Append(errors, ErrProcessing)
          /\ pc' = "returned"
     ELSE /\ errors' = errors
          /\ pc' = "raised"
  /\ UNCHANGED << aux, report, url_result, result, browser, stored_elements, provider,
                  initial_state, managers, alive, hist, failed >>

\* the caller hands the result create_result returned to
\* generate_cod_results
GenerateCodResults ==
  /\ pc = "returned"
  /\ result.bound
  /\ report = << >>
  /\ report' = << generate_cod_results(result) >>
  /\ UNCHANGED << aux, pc, url_result, result, errors, browser,
                  stored_elements, provider, initial_state, managers, alive,
                  hist, failed >>

Next ==
  \/ InitializeResult
  \/ VisitUrlPre
  \/ DetectCookieBanner
  \/ GetPageStatePre
  \/ FindMeaningfulClickables
  \/ CheckSiteAccessibility
  \/ UpdatePageLanding
  \/ ClickConsentButton("accept")
  \/ ReplayInteractions("accept")
  \/ CapturePostState("accept")
  \/ ResetCleanup
  \/ ResetConstruct
  \/ DelManager
  \/ RejectVisit
  \/ ClickConsentButton("reject")
  \/ ReplayInteractions("reject")
  \/ CapturePostState("reject")
  \/ Finalize
  \/ ExceptHandler
  \/ GenerateCodResults

Spec == Init /\ [][Next]_vars

\* the errors list the returned result refers to
ResultErrors ==
  IF result.bound /\ result.errors = "self.errors" THEN errors ELSE << >>

(***************************************************************************)
(* Properties of create_result.                                            *)
(***************************************************************************)
\* the initial page visit of this call succeeded
InitialVisitSucceeded ==
  \E i \in 1..Len(hist) : hist[i].ev = "visit" /\ hist[i].session = 1

\* detect_cookie_banner ran in the first session
DetectRan ==
  \E i \in 1..Len(hist) : hist[i].ev = "detect" /\ hist[i].session = 1

Returned == pc = "returned"

\* C1: when the initial visit fails, the returned result has no pre-consent,
\* accept or reject phase state and its errors list holds exactly one error,
\* the navigation failure.
C1_VisitFailureResult ==
  (Returned /\ "visit" \in failed) =>
    /\ result.page_landing.state = << >>
    /\ result.accept_flow = InitInteractionState
    /\ result.reject_flow = InitInteractionState
    /\ ResultErrors = << ErrVisit >>

C3_ReachesFinalStep ==
  (Returned /\ InitialVisitSucceeded) =>
    /\ result.errors = "self.errors"
    /\ ResultErrors = errors
    /\ hist[Len(hist)].ev = "quit"

\* C4: whenever create_result has returned, the browser session the service
\* holds has been torn down.
C4_SessionTornDownOnReturn == Returned => browser \notin alive

\* C5: at every point of the audit at most one browser session is open; the
\* reset closes the old session before it constructs the new one.
C5_AtMostOneSession == Cardinality(alive) <= 1

\* C5 witness: the reset has constructed the second session, the first closed
C5_Witness == pc = "reject_visit" /\ alive = {2} /\ Len(managers) = 2

\* C6: the reject control is never clicked in a session in which the accept
\* control was clicked: after the accept click and before the reject click
\* that session is quit, then the reject click's session is created, then
\* the URL is visited in it.
C6_RejectInFreshSession ==
  \A j \in 1..Len(hist) : hist[j].ev = "reject" =>
    \A i \in 1..Len(hist) : hist[i].ev = "accept" =>
      /\ i < j
      /\ hist[i].session # hist[j].session
      /\ \E a, b, c \in (i + 1)..(j - 1) :
           /\ a < b /\ b < c
           /\ hist[a].ev = "quit" /\ hist[a].session = hist[i].session
           /\ hist[b].ev = "new" /\ hist[b].session = hist[j].session
           /\ hist[c].ev = "visit" /\ hist[c].session = hist[j].session

\* C6 witness: both controls were clicked during the audit
C6_Witness ==
  /\ \E i \in 1..Len(hist) : hist[i].ev = "accept"
  /\ \E j \in 1..Len(hist) : hist[j].ev = "reject"

\* C7: once banner detection has found no provider, neither branch runs:
\* banner_found is false, accept_flow and reject_flow stay as initialised and
\* no second session is ever constructed.
C7_NoProviderNoBranches ==
  (DetectRan /\ provider = NoProvider) =>
    /\ result.ccm_detection.banner_found = FALSE
    /\ result.accept_flow = InitInteractionState
    /\ result.reject_flow = InitInteractionState
    /\ Len(managers) = 1
    /\ pc \notin { "accept_click", "accept_replay", "accept_capture",
                   "reset_cleanup", "reset_construct", "reject_visit",
                   "reject_click", "reject_replay", "reject_capture" }

\* C7 witness: a run with no provider that went through the final step
C7_Witness ==
  /\ Returned /\ DetectRan /\ provider = NoProvider
  /\ result.errors = "self.errors"
  /\ result.page_landing.state # << >>

\* C8: whenever the initial visit succeeded, the returned result's
\* pre-consent phase state is populated, whatever requests the page made.
C8_PreConsentPopulated ==
  (Returned /\ InitialVisitSucceeded) => result.page_landing.state # << >>

\* the messages of the code that could report a failed re-navigation
ReNavigationErrors == { ErrVisit, ErrFlow("reject"), ErrProcessing }

\* C9: when the re-navigation after the reset fails, the reject branch is
\* skipped and the returned result's errors list holds an error for it.
C9_ReNavigationFailureRecorded ==
  (Returned /\ "re_navigation" \in failed) =>
    /\ result.reject_flow = InitInteractionState
    /\ Range(ResultErrors) \cap ReNavigationErrors # {}

\* C10: a returned result with an empty errors list is a clean run: the
\* visit succeeded and no capture, click, replay, reset or re-navigation
\* failure occurred.
C10_EmptyErrorsCleanRun ==
  (Returned /\ ResultErrors = << >>) =>
    failed \cap { "visit", "capture", "network_state", "click", "replay",
                  "reset", "re_navigation" } = {}

(***************************************************************************)
(* Repeated create_result calls on one DataCollectionService.  __init__    *)
(* creates self.errors and self.browser once; every call works on them.    *)
(***************************************************************************)
\* the errors list an earlier result r refers to, as it reads now
ErrorsNow(r) == IF r.errors = "self.errors" THEN errors ELSE << >>

\* the phase states of a result
PhaseStates(r) ==
  << r.ccm_detection, r.page_landing, r.accept_flow, r.reject_flow >>

\* the caller keeps the result it was handed and calls create_result again:
\* the locals of the call are fresh, the service's fields are what the
\* previous call left
NewCall ==
  /\ pc = "returned"
  /\ calls < MaxCalls
  /\ calls' = calls + 1
  /\ earlier' = Append(earlier, [ returned |-> result,
                                  errors_at_return |-> ResultErrors,
                                  phases_at_return |-> PhaseStates(result) ])
  /\ url_result' \in UrlResults
  /\ pc' = "create_result"
  /\ result' = Unbound
  /\ provider' = NoProvider
  /\ initial_state' = EmptyBrowserState
  /\ failed' = {}
  /\ report' = << >>
  /\ UNCHANGED << errors, browser, stored_elements, managers, alive, hist,
                  clsVars, regVars, laterVars >>

\* the service is audited on one URL first
InitService == Init /\ url_result.has_fields /\ url_result.netloc = "www.example.com"

NextService ==
  \/ Next
  \/ NewCall

SpecService == InitService /\ [][NextService]_vars

\* C11: a result create_result returned is never changed afterwards: at any
\* later point, whatever calls followed on the same service, its errors list
\* and its phase states read as they did when it was returned.
C11_ReturnedResultFrozen ==
  \A k \in 1..Len(earlier) :
    /\ ErrorsNow(earlier[k].returned) = earlier[k].errors_at_return
    /\ PhaseStates(earlier[k].returned) = earlier[k].phases_at_return

(***************************************************************************)
(* BrowserState.classify_parties on its own: a captured BrowserState, the  *)
(* page domain and the provider are the inputs; the function is applied    *)
(* once, and once more to what the first call left.                        *)
(***************************************************************************)
orchVars == << pc, url_result, result, errors, browser, stored_elements,
               provider, initial_state, managers, alive, hist, failed,
               report >>

\* no create_result call under way
OrchestratorIdle ==
  /\ pc = "idle"
  /\ url_result = [has_fields |-> FALSE, netloc |-> ""]
  /\ result = Unbound
  /\ errors = << >>
  /\ browser = 1
  /\ stored_elements = << >>
  /\ provider = NoProvider
  /\ initial_state = EmptyBrowserState
  /\ managers = << NewManager >>
  /\ alive = {1}
  /\ hist = << >>
  /\ failed = {}
  /\ calls = 0
  /\ earlier = << >>
  /\ report = << >>

\* sequences over S of length at most n
SeqsUpTo(S, n) == UNION { [1..k -> S] : k \in 0..n }

\* netlocs of the audited page: BrowserManager.current_page_domain
PageDomains == { "example.com", "a.co.uk", "cookielaw.org", "localhost" }

\* what detect_cookie_banner returned
DetectedProviders == { NoProvider, "onetrust" }

\* cookies Network.getAllCookies can answer with
CookiePool ==
  { [name |-> "session", domain |-> ".example.com"],
    [name |-> "prefs", domain |-> "www.example.com"],
    [name |-> "OptanonConsent", domain |-> "cdn.cookielaw.org"],
    [name |-> "_ga", domain |-> "google-analytics.com"],
    [name |-> "uid", domain |-> "b.co.uk"],
    [name |-> "dev", domain |-> "localhost"] }

\* URLs of requests the performance log can hold
RequestUrls ==
  { << "https", "://", "www", ".", "example", ".", "com", "/", "app", ".",
       "js" >>,
    << "https", "://", "www", ".", "googletagmanager", ".", "com", "/", "gtm",
       ".", "js" >>,
    << "https", "://", "www", ".", "google-analytics", ".", "com", "/",
       "analytics", ".", "js" >>,
    << "https", "://", "www", ".", "google-analytics", ".", "com", "/", "g",
       "/", "collect" >>,
    << "https", "://", "www", ".", "google-analytics", ".", "com", "/",
       "collect", "?", "dl", "=", "google-analytics", ".", "com", "/",
       "analytics", ".", "js" >>,
    << "https", "://", "assets", ".", "adobedtm", ".", "com", "/", "launch-",
       "EN1", ".", "min", ".", "js" >>,
    << "https", "://", "cdn", ".", "cookielaw", ".", "org", "/", "otSDKStub",
       ".", "js" >>,
    << "https", "://", "b", ".", "co", ".", "uk", "/", "pixel" >>,
    << "data", ":", "image", "/", "gif" >> }

\* the requests _get_network_requests can build: no Set-Cookie header in the
\* response, or one without a Domain attribute
RequestPool ==
  UNION { { NetworkRequest(url, << >>),
            NetworkRequest(url, << [ name |-> "sid",
                                     domain |-> urlparse_netloc(url),
                                     type |-> "None" ] >>) } :
          url \in RequestUrls }

InitClassify ==
  /\ OrchestratorIdle
  /\ RegistryIdle
  /\ LaterIdle
  /\ \E cookies \in SeqsUpTo(CookiePool, MaxCookies) :
     \E network_requests \in SeqsUpTo(RequestPool, MaxRequests) :
       snapshot = [ cookies |->
                      [ i \in 1..Len(cookies) |-> NormalizedCookie(cookies[i]) ],
                    network_requests |-> network_requests,
                    page_domain |-> "" ]
  /\ classify_args \in [ page_domain : PageDomains,
                         provider : DetectedProviders ]
  /\ classify_pc = "captured"
  /\ first_pass = NewBrowserState

\* state.classify_parties(self.current_page_domain, provider)
ClassifyParties ==
  /\ classify_pc = "captured"
  /\ LET r == classify_parties(snapshot, classify_args.page_domain,
                               classify_args.provider)
     IN  /\ snapshot' = r.state
         /\ first_pass' = IF r.raised THEN first_pass ELSE r.state
         /\ classify_pc' = IF r.raised THEN "raised" ELSE "classified"
  /\ UNCHANGED << classify_args, orchVars, svcVars, regVars, laterVars >>

\* classify_parties called again on the classified snapshot, same arguments
ClassifyAgain ==
  /\ classify_pc = "classified"
  /\ LET r == classify_parties(snapshot, classify_args.page_domain,
                               classify_args.provider)
     IN  /\ snapshot' = r.state
         /\ classify_pc' = IF r.raised THEN "raised" ELSE "reclassified"
  /\ UNCHANGED << classify_args, first_pass, orchVars, svcVars, regVars, laterVars >>

NextClassify ==
  \/ ClassifyParties
  \/ ClassifyAgain

SpecClassify == InitClassify /\ [][NextClassify]_vars

(***************************************************************************)
(* Properties of classify_parties.                                         *)
(***************************************************************************)
\* classify_parties returned
Classified == classify_pc \in {"classified", "reclassified"}

PartyFlags == { "is_first_party", "is_third_party", "is_ccm_provider" }

\* exactly one of the three party flags of x is true
ExactlyOneParty(x) == Cardinality({ f \in PartyFlags : x[f] = "True" }) = 1

\* the domain classify_parties parses for a cookie
CookieDomain(cookie) == lstrip_dot(cookie.domain)

DecisionOrder(d) ==
  IF /\ classify_args.provider # NoProvider
     /\ get_fld(d) = Providers[classify_args.provider].provider_base_domain
  THEN "is_ccm_provider"
  ELSE IF get_fld(d) = get_fld(classify_args.page_domain)
       THEN "is_first_party"
       ELSE "is_third_party"

AllFlagged ==
  /\ \A i \in 1..Len(snapshot.cookies) :
       \A f \in PartyFlags : snapshot.cookies[i][f] \in {"True", "False"}
  /\ \A i \in 1..Len(snapshot.network_requests) :
       \A f \in PartyFlags \cup {"is_analytics_container"} :
         snapshot.network_requests[i][f] \in {"True", "False"}

\* x is flagged third party and nothing else
ThirdPartyOnly(x) ==
  /\ x.is_ccm_provider = "False"
  /\ x.is_first_party = "False"
  /\ x.is_third_party = "True"

C15_NoExceptionAllFlagged ==
  /\ classify_pc # "raised"
  /\ classify_pc \in {"classified", "reclassified"} => AllFlagged

\* the registrable part of a label sequence: its longest public suffix and
\* the label before it
RegistrableLabels(labels) == Suffix(labels, Max(SuffixLengths(labels)) + 1)

\* domain d has a registrable part
HasRegistrable(d) ==
  /\ SuffixLengths(DomainLabels[d]) # {}
  /\ Max(SuffixLengths(DomainLabels[d])) < Len(DomainLabels[d])

\* d and the page have the same registrable part
SameSite(d) ==
  /\ HasRegistrable(d)
  /\ RegistrableLabels(DomainLabels[d])
       = RegistrableLabels(DomainLabels[classify_args.page_domain])

\* C16: same-site decisions compare registrable, public-suffix-aware
\* domains: a cookie or request is flagged first party only if its domain
\* has the page's registrable domain (so not for y.tld on x.tld, and not for
\* b.co.uk on a.co.uk, which share only the suffix co.uk), and one that has
\* it (sub.x.tld on x.tld) is flagged first party unless the provider rule
\* claimed it.
C16_RegistrableDomainsCompared ==
  Classified =>
    /\ \A i \in 1..Len(snapshot.cookies) :
         LET c == snapshot.cookies[i]
         IN  /\ c.is_first_party = "True" => SameSite(CookieDomain(c))
             /\ SameSite(CookieDomain(c)) =>
                  c.is_first_party = "True" \/ c.is_ccm_provider = "True"
    /\ \A i \in 1..Len(snapshot.network_requests) :
         LET r == snapshot.network_requests[i]
         IN  /\ r.is_first_party = "True" => SameSite(r.domain)
             /\ SameSite(r.domain) =>
                  r.is_first_party = "True" \/ r.is_ccm_provider = "True"

\* on page a.co.uk a cookie of b.co.uk came out third party
C16_Witness ==
  /\ Classified
  /\ classify_args.page_domain = "a.co.uk"
  /\ \E i \in 1..Len(snapshot.cookies) :
       /\ snapshot.cookies[i].domain = "b.co.uk"
       /\ snapshot.cookies[i].is_first_party = "False"
       /\ snapshot.cookies[i].is_third_party = "True"

\* request r falls to the third-party rule: its domain parses and is neither
\* the provider's nor the page's
FallsToThirdPartyRule(r) ==
  /\ ~ FldRaises(r.domain)
  /\ DecisionOrder(r.domain) = "is_third_party"

\* C17: every request that falls to the third-party rule and for which the
\* container-load check is true for some analytics provider is flagged
\* is_analytics_container, carries the name of such a provider, and is not
\* flagged is_third_party, whether or not a CMP provider was detected.
C17_ContainerLoadsFlagged ==
  Classified =>
    \A i \in 1..Len(snapshot.network_requests) :
      LET r == snapshot.network_requests[i]
          matched == { k \in Range(AnalyticsKeys) :
                         is_analytics_container_load(r.url, r.domain)[k] }
      IN  (FallsToThirdPartyRule(r) /\ matched # {}) =>
            /\ r.is_analytics_container = "True"
            /\ r.analytics_provider
                 \in { AnalyticsProviders[k].provider_name : k \in matched }
            /\ r.is_third_party = "False"

\* C19: classify_parties run a second time on the classified snapshot, with
\* the same page domain and provider, leaves every field of every cookie and
\* request as the first run set it.
C19_Idempotent == classify_pc = "reclassified" => snapshot = first_pass

\* the second run went over a cookie and over an analytics container request
C19_Witness ==
  /\ classify_pc = "reclassified"
  /\ Len(snapshot.cookies) > 0
  /\ \E i \in 1..Len(snapshot.network_requests) :
       /\ snapshot.network_requests[i].is_analytics_container = "True"
       /\ snapshot.network_requests[i].analytics_provider = "Google Analytics"

(***************************************************************************)
(* The lookups of ProviderRegistry on their own: page content, URL and     *)
(* domain are the inputs, each lookup is made once.                        *)
(***************************************************************************)
\* identifiers the page markup can contain
MarkupTokens ==
  { "onetrust-banner-sdk", "OneTrust-Banner-SDK", "CybotCookiebotDialog",
    "truste-consent-track", "onetrust-accept-btn-handler", "main-content" }

InitRegistry ==
  /\ OrchestratorIdle
  /\ ClassifierIdle
  /\ LaterIdle
  /\ query \in [ page_content : SUBSET MarkupTokens,
                 url : RequestUrls,
                 domain : DOMAIN DomainLabels ]
  /\ reply = [ provider |-> << >>, container |-> << >>, event |-> << >> ]

\* registry.get_provider(page_content)
GetProvider ==
  /\ reply.provider = << >>
  /\ reply' = [reply EXCEPT !.provider = << get_provider(query.page_content) >>]
  /\ UNCHANGED << query, orchVars, svcVars, clsVars, laterVars >>

\* registry.is_analytics_container_load(url, domain)
IsAnalyticsContainerLoad ==
  /\ reply.container = << >>
  /\ reply' = [reply EXCEPT !.container =
                 << is_analytics_container_load(query.url, query.domain) >>]
  /\ UNCHANGED << query, orchVars, svcVars, clsVars, laterVars >>

\* registry.is_analytics_event(url, domain)
IsAnalyticsEvent ==
  /\ reply.event = << >>
  /\ reply' = [reply EXCEPT !.event =
                 << is_analytics_event(query.url, query.domain) >>]
  /\ UNCHANGED << query, orchVars, svcVars, clsVars, laterVars >>

NextRegistry ==
  \/ GetProvider
  \/ IsAnalyticsContainerLoad
  \/ IsAnalyticsEvent

SpecRegistry == InitRegistry /\ [][NextRegistry]_vars

\* C18: for every URL, domain and registered analytics provider, the
\* container-load check and the event check are never both true for that
\* provider.
C18_ContainerAndEventExclusive ==
  (reply.container # << >> /\ reply.event # << >>) =>
    \A k \in Range(AnalyticsKeys) : ~ (reply.container[1][k] /\ reply.event[1][k])

\* both checks were made on a URL that matches a container pattern and an
\* event pattern of Google Analytics, on a Google Analytics domain
C18_Witness ==
  /\ reply.container # << >>
  /\ reply.event # << >>
  /\ reply.event[1]["google_analytics"]
  /\ AnyPattern(AnalyticsProviders["google_analytics"].container_url_patterns,
                query.url)

\* some banner id of provider key occurs in the page content, case ignored
BannerIdOccurs(key) ==
  \E banner_id \in Range(Providers[key].banner_ids) :
    \E t \in query.page_content : Lower(t) = Lower(banner_id)

\* C20: get_provider returns a provider signature if and only if at least
\* one banner id of some registered provider occurs, case ignored, in the
\* page markup, and then the signature of a provider of which one does; when
\* no registered banner id occurs it returns None.
C20_ProviderIffBannerId ==
  reply.provider # << >> =>
    /\ reply.provider[1] # NoProvider <=>
         \E key \in Range(ProviderKeys) : BannerIdOccurs(key)
    /\ reply.provider[1] # NoProvider => BannerIdOccurs(reply.provider[1])

\* a provider was identified by a banner id written with capitals
C20_Witness ==
  /\ reply.provider = << "usercentrics" >>
  /\ query.page_content = { "CybotCookiebotDialog", "main-content" }

(***************************************************************************)
(* BrowserManager.detect_cookie_banner on its own: the markup of the page, *)
(* the elements the DOM shows and whether a browser command raises are the *)
(* inputs; detection runs once.                                            *)
(***************************************************************************)
InitDetect ==
  /\ OrchestratorIdle
  /\ ClassifierIdle
  /\ RegistryIdle
  /\ CaptureIdle
  /\ UrlProcessorIdle
  /\ LastIdle
  /\ \E page_source \in SUBSET MarkupTokens :
       page \in [ raised : BOOLEAN, page_source : {page_source},
                  displayed : SUBSET page_source ]
  /\ detected = << >>

\* provider = self.browser.detect_cookie_banner()
DetectBanner ==
  /\ detected = << >>
  /\ detected' =
       << detect_cookie_banner(page.raised, page.page_source, page.displayed) >>
  /\ UNCHANGED << page, orchVars, svcVars, clsVars, regVars, logVars, urlVars,
                  lastVars >>

NextDetect == DetectBanner

SpecDetect == InitDetect /\ [][NextDetect]_vars

\* C21: detection reports a provider only if that provider was identified
\* from the page markup (it is the first registered provider of which a
\* banner id occurs in the markup, case ignored) and one of its banner ids is
\* the id of an element that is present and displayed; in every other case,
\* a browser error during detection included, it reports no provider.
C21_DetectedOnlyIfDisplayed ==
  LET OccursInMarkup(key) ==
        \E banner_id \in Range(Providers[key].banner_ids) :
          \E t \in page.page_source : Lower(t) = Lower(banner_id)
      IdentifiedFromMarkup(key) ==
        \E i \in 1..Len(ProviderKeys) :
          /\ ProviderKeys[i] = key
          /\ OccursInMarkup(key)
          /\ \A j \in 1..(i - 1) : ~ OccursInMarkup(ProviderKeys[j])
      BannerDisplayed(key) ==
        \E banner_id \in Range(Providers[key].banner_ids) :
          banner_id \in page.displayed
  IN  detected # << >> =>
        \A key \in Range(ProviderKeys) :
          detected[1] = key <=>
            /\ ~ page.raised
            /\ IdentifiedFromMarkup(key)
            /\ BannerDisplayed(key)

\* detection ran on a page whose markup names OneTrust and TrustArc and
\* whose OneTrust banner is hidden: TrustArc, identified first, is reported
\* since its banner shows
C21_Witness ==
  /\ detected = << "trustarc" >>
  /\ page.page_source = { "truste-consent-track", "onetrust-banner-sdk" }
  /\ page.displayed = { "truste-consent-track" }

(***************************************************************************)
(* One capture on its own: BrowserManager.get_page_state builds the        *)
(* request records from the performance log, _capture_post_consent_state   *)
(* stores the capture in its InteractionState and generate_cod_results     *)
(* rolls the phase up.  The log entries, the cookies of the browser and    *)
(* the provider are the inputs.                                            *)
(***************************************************************************)
AppJs ==
  << "https", "://", "www", ".", "example", ".", "com", "/", "app", ".",
     "js" >>

\* params['initiator'] of a Network.requestWillBeSent event
Initiator(type, has_stack, has_callFrames, callFrames) ==
  [ type |-> type, has_stack |-> has_stack,
    has_callFrames |-> has_callFrames, callFrames |-> callFrames ]

\* params['response'] of a Network.responseReceived event: whether it has
\* headers, and the Set-Cookie headers under either spelling, each header a
\* sequence of name / value pairs
Headers(present, upper, lower) ==
  [ present |-> present, Set_Cookie |-> upper, set_cookie |-> lower ]

NoHeaders == Headers(FALSE, << >>, << >>)

\* an entry of the performance log.  well_formed is false for an entry
\* whose message json.loads cannot parse or that lacks a key the passes read
LogEntry(well_formed, method, requestId, url, initiator, timestamp, headers) ==
  [ well_formed |-> well_formed, method |-> method, requestId |-> requestId,
    url |-> url, initiator |-> initiator, timestamp |-> timestamp,
    headers |-> headers ]

RequestWillBeSent(requestId, url, initiator, timestamp) ==
  LogEntry(TRUE, "Network.requestWillBeSent", requestId, url, initiator,
           timestamp, NoHeaders)

ResponseReceived(requestId, headers) ==
  LogEntry(TRUE, "Network.responseReceived", requestId, << >>,
           Initiator("other", FALSE, FALSE, << >>), 0, headers)
\* entries driver.get_log('performance') can answer with: request events for
\* a page script, for scripts a script loaded (with its call frame, without
\* a stack, with an empty list of frames), responses with a Set-Cookie or
\* set-cookie header or without headers, an event of another method and a
\* malformed entry
LogEntries ==
  LET GtmJs == << "https", "://", "www", ".", "googletagmanager", ".", "com",
                  "/", "gtm", ".", "js" >>
      AnalyticsJs == << "https", "://", "www", ".", "google-analytics", ".",
                        "com", "/", "analytics", ".", "js" >>
      PixelUrl == << "https", "://", "b", ".", "co", ".", "uk", "/",
                     "pixel" >>
      DataUrl == << "data", ":", "image", "/", "gif" >>
      Frame(url) == [ has_url |-> TRUE, url |-> url ]
      other == Initiator("other", FALSE, FALSE, << >>)
  IN  { RequestWillBeSent("r1", AppJs,
                          Initiator("parser", FALSE, FALSE, << >>), 1),
        RequestWillBeSent("r1", GtmJs,
                          Initiator("script", TRUE, TRUE, << Frame(AppJs) >>),
                          2),
        RequestWillBeSent("r2", AnalyticsJs,
                          Initiator("script", TRUE, TRUE, << Frame(GtmJs) >>),
                          2),
        RequestWillBeSent("r2", PixelUrl,
                          Initiator("script", FALSE, FALSE, << >>), 3),
        RequestWillBeSent("r2", DataUrl,
                          Initiator("script", TRUE, TRUE, << >>), 3),
        ResponseReceived("r1",
                         Headers(TRUE, << << [k |-> "sid", v |-> "1"] >> >>,
                                 << >>)),
        ResponseReceived("r1",
                         Headers(TRUE, << >>,
                                 << << [k |-> "uid", v |-> "2"],
                                       [k |-> "Domain", v |-> "b.co.uk"] >>
                                 >>)),
        ResponseReceived("r2", NoHeaders),
        LogEntry(TRUE, "Network.loadingFinished", "r1", << >>, other, 0,
                 NoHeaders),
        LogEntry(FALSE, "", "r1", << >>, other, 0, NoHeaders) }

\* the cookies Network.getAllCookies answers with before and after the wait
CookieAnswers ==
  LET session_cookie == [name |-> "session", domain |-> ".example.com"]
      ga == [name |-> "_ga", domain |-> "google-analytics.com"]
  IN  { [ initial_cookies |-> << >>, final_cookies |-> << >> ],
        [ initial_cookies |-> << session_cookie >>,
          final_cookies |-> << session_cookie >> ],
        [ initial_cookies |-> << >>, final_cookies |-> << session_cookie >> ],
        [ initial_cookies |-> << ga >>, final_cookies |-> << ga >> ] }

\* str.endswith on the domains of the model
endswith(s, suffix) ==
  /\ Len(DomainLabels[suffix]) <= Len(DomainLabels[s])
  /\ Suffix(DomainLabels[s], Len(DomainLabels[suffix])) = DomainLabels[suffix]

\* NetworkRequest(url=..., initiator=..., timestamp=..., request_id=...)
NetworkRequestOf(params) ==
  NetworkRequest(params.url, << >>)
    @@ [ initiator |-> params.initiator, timestamp |-> params.timestamp,
         request_id |-> params.requestId ]

\* the first pass's handler: except Exception as e: print(...)
OnLogParseError(count) == count

\* _get_network_requests, the first pass from entry i on: acc holds the
\* records appended so far, request_cookie_map and the errors recorded
RECURSIVE FirstPassFrom(_, _, _)
FirstPassFrom(logs, i, acc) ==
  IF i > Len(logs) THEN acc
  ELSE FirstPassFrom(logs, i + 1,
         IF ~ logs[i].well_formed
         THEN [acc EXCEPT !.errors = OnLogParseError(@)]
         ELSE IF logs[i].method = "Network.requestWillBeSent"
         THEN [acc EXCEPT
                 !.network_requests = Append(@, NetworkRequestOf(logs[i])),
                 !.request_cookie_map[logs[i].requestId] =
                    Len(acc.network_requests) + 1]
         ELSE acc)

\* BrowserManager._extract_domain_from_cookie
_extract_domain_from_cookie(cookie_header, default_domain) ==
  LET hits == { i \in 1..Len(cookie_header) :
                  Lower(cookie_header[i].k) = "domain" }
  IN  IF hits # {}
      THEN cookie_header[CHOOSE i \in hits : \A j \in hits : i <= j].v
      ELSE default_domain

\* the cookies_set list of one response: both header spellings, each header
\* parsed into name and domain
CookiesSet(headers, request_domain) ==
  LET cookie_headers == headers.Set_Cookie \o headers.set_cookie
  IN  [ i \in 1..Len(cookie_headers) |->
          [ name |-> cookie_headers[i][1].k,
            domain |-> _extract_domain_from_cookie(cookie_headers[i],
                                                   request_domain),
            type |-> "None" ] ]

\* _get_network_requests, the second pass from entry i on
RECURSIVE SecondPassFrom(_, _, _)
SecondPassFrom(logs, i, acc) ==
  IF i > Len(logs) THEN acc
  ELSE LET e == logs[i]
           at == acc.request_cookie_map[e.requestId]
       IN  SecondPassFrom(logs, i + 1,
             IF ~ e.well_formed
             THEN [acc EXCEPT !.errors = OnLogParseError(@)]
             ELSE IF /\ e.method = "Network.responseReceived"
                     /\ at # 0
                     /\ e.headers.present
             THEN [acc EXCEPT !.network_requests[at].sets_cookies =
                     CookiesSet(e.headers, acc.network_requests[at].domain)]
             ELSE acc)

\* BrowserManager._get_network_requests over network_logs
_get_network_requests(logs, map, recorded) ==
  SecondPassFrom(logs, 1,
    FirstPassFrom(logs, 1, [ network_requests |-> << >>,
                             request_cookie_map |-> map,
                             errors |-> recorded ]))

\* get_page_state, the association of the cookies of the browser with one
\* request when no new cookie appeared, from cookie i on
RECURSIVE AssociateFrom(_, _, _)
AssociateFrom(cookies, i, req) ==
  IF i > Len(cookies) THEN req
  ELSE LET cookie_domain == lstrip_dot(cookies[i].domain)
           cookie_entry == [ name |-> cookies[i].name,
                             domain |-> cookie_domain, type |-> "None" ]
           related == \/ endswith(req.domain, cookie_domain)
                      \/ endswith(cookie_domain, req.domain)
           known == \E j \in 1..Len(req.sets_cookies) :
                      req.sets_cookies[j].name = cookies[i].name
       IN  AssociateFrom(cookies, i + 1,
             IF related /\ ~ known
             THEN [req EXCEPT !.sets_cookies = Append(@, cookie_entry)]
             ELSE req)

\* the final cookies whose name@domain key the initial cookies do not have
NewCookies(initial_cookies, final_cookies) ==
  SelectSeq(final_cookies,
            LAMBDA c : \A i \in 1..Len(initial_cookies) :
                         ~ (initial_cookies[i].name = c.name
                            /\ initial_cookies[i].domain = c.domain))

\* BrowserManager.get_page_state(provider) with the request records built
\* from the log: the BrowserState returned, request_cookie_map and the
\* errors recorded
get_page_state_from_log(answers, logs, map, recorded, page_domain, prov) ==
  LET normalized_cookies ==
        [ i \in 1..Len(answers.final_cookies) |->
            NormalizedCookie(answers.final_cookies[i]) ]
      built == _get_network_requests(logs, map, recorded)
      new_cookies == NewCookies(answers.initial_cookies, answers.final_cookies)
      associated ==
        IF new_cookies = << >>
        THEN [ i \in 1..Len(built.network_requests) |->
                 AssociateFrom(normalized_cookies, 1,
                               built.network_requests[i]) ]
        ELSE built.network_requests
      state == [ cookies |-> normalized_cookies,
                 network_requests |-> associated,
                 page_domain |-> "" ]
  IN  [ state |-> IF page_domain # "None"
                  THEN classify_parties(state, page_domain, prov).state
                  ELSE state,
        request_cookie_map |-> built.request_cookie_map,
        errors |-> built.errors ]

InitCapture ==
  /\ OrchestratorIdle
  /\ ClassifierIdle
  /\ RegistryIdle
  /\ DetectIdle
  /\ UrlProcessorIdle
  /\ LastIdle
  /\ \E performance_log \in SeqsUpTo(LogEntries, MaxLogEntries) :
     \E answers \in CookieAnswers :
       driver = [ performance_log |-> performance_log,
                  initial_cookies |-> answers.initial_cookies,
                  final_cookies |-> answers.final_cookies ]
  /\ session \in [ current_page_domain : {"www.example.com"},
                   provider : DetectedProviders ]
  /\ network_logs = << >>
  /\ request_cookie_map = [ id \in RequestIds |-> 0 ]
  /\ page_state = << >>
  /\ log_errors = 0
  /\ post_flow = InitInteractionState
  /\ flow_errors = << >>
  /\ analysis = << >>

\* final_state = self.browser.get_page_state(provider=provider):
\* _get_network_requests extends network_logs by the driver's log and builds
\* the records from all of it
GetPageState ==
  /\ page_state = << >>
  /\ LET logs == network_logs \o driver.performance_log
         got == get_page_state_from_log(driver, logs, request_cookie_map,
                                        log_errors,
                                        session.current_page_domain,
                                        session.provider)
     IN  /\ network_logs' = logs
         /\ request_cookie_map' = got.request_cookie_map
         /\ log_errors' = got.errors
         /\ page_state' = << got.state >>
  /\ UNCHANGED << driver, session, post_flow, flow_errors, analysis,
                  orchVars, svcVars, clsVars, regVars, detVars, urlVars,
                  lastVars >>

\* flow.network_state = self._create_network_state(final_state);
\* flow.cookies = final_state.cookies; an exception goes to self.errors and
\* leaves the flow as it was
StoreCapture ==
  /\ page_state # << >>
  /\ ~ post_flow.captured
  /\ flow_errors = << >>
  /\ IF CreateNetworkStateRaises(page_state[1])
     THEN /\ flow_errors' = Append(flow_errors, ErrFlow("accept"))
          /\ post_flow' = post_flow
     ELSE /\ flow_errors' = flow_errors
          /\ post_flow' =
               [post_flow EXCEPT
                  !.network_state =
                     _create_network_state(
                       [ cookies |-> page_state[1].cookies,
                         analytics_tags |-> << >>,
                         network_requests |->
                           page_state[1].network_requests ]),
                  !.cookies = page_state[1].cookies,
                  !.captured = TRUE]
  /\ UNCHANGED << driver, session, network_logs, request_cookie_map,
                  page_state, log_errors, analysis,
                  orchVars, svcVars, clsVars, regVars, detVars, urlVars,
                  lastVars >>

\* accept_analysis = _analyze_cookies_and_requests(result.accept_flow.cookies,
\* result.accept_flow.network_state, 'post-consent')
AnalyzeFlow ==
  /\ post_flow.captured \/ flow_errors # << >>
  /\ analysis = << >>
  /\ analysis' = << _analyze_cookies_and_requests(post_flow.cookies,
                                                  post_flow.network_state,
                                                  "post-consent") >>
  /\ UNCHANGED << driver, session, network_logs, request_cookie_map,
                  page_state, log_errors, post_flow, flow_errors,
                  orchVars, svcVars, clsVars, regVars, detVars, urlVars,
                  lastVars >>

NextCapture ==
  \/ GetPageState
  \/ StoreCapture
  \/ AnalyzeFlow

SpecCapture == InitCapture /\ [][NextCapture]_vars

\* the entries of the log of a given method that the passes can read
EventsOf(method) ==
  { i \in 1..Len(network_logs) :
      network_logs[i].well_formed /\ network_logs[i].method = method }

\* the request records of the captured state
CapturedRequests == page_state[1].network_requests

\* C22: when the log holds no response-received event, every request record
\* of the captured state has an empty sets_cookies list, and the capture
\* returns one record for each request-initiated event.
C22_NoResponseNoCookies ==
  (page_state # << >> /\ EventsOf("Network.responseReceived") = {}) =>
    /\ Len(CapturedRequests) =
         Cardinality(EventsOf("Network.requestWillBeSent"))
    /\ \A i \in 1..Len(CapturedRequests) :
         CapturedRequests[i].sets_cookies = << >>

\* C23: the captured request list holds at most one record per request id;
\* url, initiator and timestamp of a record are those of the first
\* request-initiated event with its id, and its cookie-setting data those of
\* the last response event with its id that has headers.
C23_OneRecordPerRequestId ==
  LET FirstOf(S) == CHOOSE i \in S : \A j \in S : i <= j
      LastOf(S) == CHOOSE i \in S : \A j \in S : j <= i
      EventsWithId(method, id) ==
        { i \in EventsOf(method) : network_logs[i].requestId = id }
      NamesAndDomains(cookies) ==
        [ i \in 1..Len(cookies) |->
            [ name |-> cookies[i].name, domain |-> cookies[i].domain ] ]
  IN  page_state # << >> =>
        /\ \A i, j \in 1..Len(CapturedRequests) :
             CapturedRequests[i].request_id = CapturedRequests[j].request_id
               => i = j
        /\ \A i \in 1..Len(CapturedRequests) :
             LET r == CapturedRequests[i]
                 sent == EventsWithId("Network.requestWillBeSent",
                                      r.request_id)
                 received ==
                   { k \in EventsWithId("Network.responseReceived",
                                        r.request_id) :
                       network_logs[k].headers.present }
             IN  /\ sent # {}
                 /\ r.url = network_logs[FirstOf(sent)].url
                 /\ r.initiator = network_logs[FirstOf(sent)].initiator
                 /\ r.timestamp = network_logs[FirstOf(sent)].timestamp
                 /\ received # {} =>
                      NamesAndDomains(r.sets_cookies) =
                        NamesAndDomains(
                          CookiesSet(network_logs[LastOf(received)].headers,
                                     r.domain))

\* C24: for a log holding any mix of well-formed and malformed entries the
\* builder returns one record for each well-formed request-initiated entry,
\* in the order of the log, skips each malformed entry and counts each
\* skipped entry as a non-fatal parse error.
C24_MalformedSkippedAndCounted ==
  page_state # << >> =>
    LET sent == SelectSeq(network_logs,
                          LAMBDA e : e.well_formed
                                     /\ e.method = "Network.requestWillBeSent")
    IN  /\ Len(CapturedRequests) = Len(sent)
        /\ \A i \in 1..Len(sent) :
             /\ CapturedRequests[i].url = sent[i].url
             /\ CapturedRequests[i].request_id = sent[i].requestId
        /\ log_errors =
             Cardinality({ i \in 1..Len(network_logs) :
                             ~ network_logs[i].well_formed })

\* C25: building the chain edges of a phase never fails, and the edges are
\* exactly one per request whose initiator type is script, with the request's
\* url as target, type script, and as source the url of the top call-stack
\* frame or the sentinel "unknown"; other requests produce no edge.
C25_OneEdgePerScriptRequest ==
  LET TopFrameUrl(initiator) ==
        IF /\ initiator.has_stack
           /\ initiator.has_callFrames
           /\ initiator.callFrames # << >>
           /\ initiator.callFrames[1].has_url
        THEN initiator.callFrames[1].url
        ELSE << "unknown" >>
      scripts == SelectSeq(CapturedRequests,
                           LAMBDA r : r.initiator.type = "script")
      edges == [ i \in 1..Len(scripts) |->
                   [ source |-> TopFrameUrl(scripts[i].initiator),
                     target |-> scripts[i].url,
                     type |-> "script" ] ]
  IN  (post_flow.captured \/ flow_errors # << >>) =>
        /\ flow_errors = << >>
        /\ post_flow.network_state.request_chains = edges

\* C29: the analytics-library-loads roll-up of a phase is true exactly when a
\* request of that phase was classified is_analytics_container = true, and
\* the noThirdPartyRequests roll-up is false exactly when a request of the
\* phase is third party without being such a container load.
C29_AnalyticsLoadsRollUp ==
  analysis # << >> =>
    /\ analysis[1].analyticsLibraryLoads.value = "True" <=>
         \E i \in 1..Len(CapturedRequests) :
           CapturedRequests[i].is_analytics_container = "True"
    /\ analysis[1].noThirdPartyRequests.value = "False" <=>
         \E i \in 1..Len(CapturedRequests) :
           /\ CapturedRequests[i].is_third_party = "True"
           /\ CapturedRequests[i].is_analytics_container # "True"

(***************************************************************************)
(* Properties of generate_cod_results on the results of create_result.     *)
(***************************************************************************)
\* C27: for every result create_result returns, a visit-failed result with
\* a null pre-consent state and a no-banner result with null accessibility
\* and scroll signals included, generate_cod_results returns a report and
\* raises nothing, and a phase left empty rolls up to nothing present.
C27_AnalyzerTotal ==
  LET NothingPresent(a) ==
        /\ a.firstPartyCookies.value = "False"
        /\ a.ccmProviderCookies.value = "False"
        /\ a.noThirdPartyCookies.value = "True"
        /\ a.firstPartyRequests.value = "False"
        /\ a.ccmProviderRequests.value = "False"
        /\ a.noThirdPartyRequests.value = "True"
        /\ a.analyticsLibraryLoads.value = "False"
  IN  report # << >> =>
        /\ ~ report[1].raised
        /\ result.accept_flow = InitInteractionState =>
             NothingPresent(report[1].onAccept)
        /\ result.reject_flow = InitInteractionState =>
             NothingPresent(report[1].onReject)

\* the cookies of the three phases of result and their roll-ups in report
PhaseCookies ==
  [ preConsent |-> result.page_landing.state[1].cookies,
    onAccept |-> result.accept_flow.cookies,
    onReject |-> result.reject_flow.cookies ]

\* C28: in every phase of a report the noThirdPartyCookies flag is true
\* exactly when no cookie of that phase is classified third party; its
\* outlook is Positive when true and Negative when false.
C28_NoThirdPartyCookiesFlag ==
  (report # << >> /\ ~ report[1].raised) =>
    \A phase \in DOMAIN PhaseCookies :
      LET flag == report[1][phase].noThirdPartyCookies
      IN  /\ flag.value = "True" <=>
               \A i \in 1..Len(PhaseCookies[phase]) :
                 PhaseCookies[phase][i].is_third_party # "True"
          /\ flag.value = "True" => flag.outlook = "Positive"
          /\ flag.value # "True" =>
               flag.value = "False" /\ flag.outlook = "Negative"

\* a report on a result whose pre-consent phase holds one first-party and
\* one third-party cookie: the flag is false, the outlook Negative
C28_Witness ==
  /\ report # << >>
  /\ ~ report[1].raised
  /\ \E i, j \in 1..Len(PhaseCookies.preConsent) :
       /\ PhaseCookies.preConsent[i].is_first_party = "True"
       /\ PhaseCookies.preConsent[j].is_third_party = "True"
  /\ Len(PhaseCookies.preConsent) = 2
  /\ report[1].preConsent.noThirdPartyCookies.value = "False"
  /\ report[1].preConsent.noThirdPartyCookies.outlook = "Negative"

(***************************************************************************)
(* URLProcessor.process_urls (src/url_processor.py): the list of inputs    *)
(* and the answers of the HTTP session are the inputs; one step handles    *)
(* one element of the list.                                                *)
(***************************************************************************)
\* an element of the urls list: a string, written as the sequence of its
\* tokens, or an object that is no string
UrlInput(is_str, tokens) == [ is_str |-> is_str, tokens |-> tokens ]

ExampleUrl == << "https", "://", "example", ".", "com" >>

UrlInputs ==
  { UrlInput(TRUE, ExampleUrl),
    UrlInput(TRUE, AppJs),
    UrlInput(TRUE, << "not-a-url" >>),
    UrlInput(TRUE, << >>),
    UrlInput(TRUE, << "https", "://" >>),
    UrlInput(TRUE, << "ftp", "://", "example", ".", "com" >>),
    UrlInput(TRUE, << "https", ":", "/", "example", ".", "com" >>),
    UrlInput(FALSE, << >>) }

\* what self.session.get does: it returns a response with a status code and
\* a url, or raises; Timeout, ConnectionError and TooManyRedirects are
\* RequestExceptions, ValueError is not
RequestExceptions == { "Timeout", "ConnectionError", "TooManyRedirects" }

SessionAnswers ==
  { [ exc |-> "None", status_code |-> 200, url |-> ExampleUrl \o << "/" >> ],
    [ exc |-> "None", status_code |-> 301, url |-> AppJs ],
    [ exc |-> "None", status_code |-> 308, url |-> AppJs ],
    [ exc |-> "None", status_code |-> 404, url |-> ExampleUrl ],
    [ exc |-> "None", status_code |-> 500, url |-> ExampleUrl ],
    [ exc |-> "Timeout", status_code |-> 0, url |-> << >> ],
    [ exc |-> "ConnectionError", status_code |-> 0, url |-> << >> ],
    [ exc |-> "ValueError", status_code |-> 0, url |-> << >> ] }

\* urlparse(url).scheme
urlparse_scheme(url) ==
  IF Len(url) >= 2 /\ url[2] \in { "://", ":" } THEN Lower(url[1]) ELSE ""

\* URLProcessor.validate_url; urlparse finds no scheme and no netloc in an
\* object that is no string, or raises, and the handler returns False
validate_url(url) ==
  /\ url.is_str
  /\ urlparse_scheme(url.tokens) # ""
  /\ urlparse_netloc(url.tokens) # ""
  /\ urlparse_scheme(url.tokens) \in { "http", "https" }

\* URLProcessor.check_domain on a valid URL
check_domain(url) == Lower(urlparse_netloc(url.tokens))

\* str.rstrip('/')
RECURSIVE rstrip_slash(_)
rstrip_slash(s) ==
  IF s # << >> /\ s[Len(s)] = "/"
  THEN rstrip_slash(SubSeq(s, 1, Len(s) - 1))
  ELSE s

\* an error message: its text, the exception it is about and the status
Message(text, about, status) ==
  [ text |-> text, about |-> about, status |-> status ]

NoMessage == Message("None", "", 0)

\* URLProcessor.get_url_status: the final url and the status code, or the
\* exception that leaves it; a RequestException is raised again as a plain
\* Exception("Request failed: ...")
get_url_status(answer) ==
  IF answer.exc = "None"
  THEN [ exc |-> "None", message |-> NoMessage,
         final_url |-> rstrip_slash(answer.url),
         status_code |-> answer.status_code ]
  ELSE IF answer.exc \in RequestExceptions
  THEN [ exc |-> "Exception",
         message |-> Message("Request failed", answer.exc, 0),
         final_url |-> << >>, status_code |-> 0 ]
  ELSE [ exc |-> answer.exc, message |-> Message("", answer.exc, 0),
         final_url |-> << >>, status_code |-> 0 ]

\* URLProcessor._create_result
_create_result(original_url, destination_url, status_code, domain, is_valid, error_message) ==
  [ requested_url |-> original_url, destination_url |-> destination_url,
    status_code |-> status_code, domain |-> domain,
    analytics_source |-> "unknown", is_valid |-> is_valid,
    error_message |-> error_message ]

\* a handler for the failures get_url_status wraps, and no other
process_urls_catches_wrapped_only(exc) == exc = "Exception"

\* process_urls, the handler of the loop body: except Exception
process_urls_catches(exc) ==
  exc \in { "Exception", "ValueError" } \cup RequestExceptions

\* only a 200 counts as a successful response
SuccessStatus_ok_only == { 200 }

\* the status codes process_urls takes for a successful response
SuccessStatus == { 200, 301, 302, 307, 308 }

\* process_urls, the loop body for one url and the answer of the session:
\* the result appended, or the exception that leaves process_urls
ProcessOne(url, answer) ==
  IF ~ validate_url(url)
  THEN [ exc |-> "None",
         result |-> _create_result(url, << >>, 0, "", FALSE,
                                   Message("Invalid URL format", "", 0)) ]
  ELSE LET domain == check_domain(url)
           got == get_url_status(answer)
       IN  IF got.exc # "None"
           THEN IF process_urls_catches(got.exc)
                THEN [ exc |-> "None",
                       result |-> _create_result(url, << >>, 0, "", FALSE,
                                                 got.message) ]
                ELSE [ exc |-> got.exc,
                       result |-> _create_result(url, << >>, 0, "", FALSE,
                                                 got.message) ]
           ELSE IF got.status_code \in SuccessStatus
           THEN [ exc |-> "None",
                  result |-> _create_result(url, got.final_url,
                                            got.status_code, domain, TRUE,
                                            NoMessage) ]
           ELSE [ exc |-> "None",
                  result |-> _create_result(url, got.final_url,
                                            got.status_code, domain, FALSE,
                                            Message("HTTP response", "",
                                                    got.status_code)) ]

InitUrls ==
  /\ OrchestratorIdle
  /\ ClassifierIdle
  /\ RegistryIdle
  /\ DetectIdle
  /\ CaptureIdle
  /\ LastIdle
  /\ urls \in SeqsUpTo(UrlInputs, MaxUrls)
  /\ next_url = 1
  /\ results = << >>
  /\ url_pc = "loop"
  /\ session_log = << >>

\* for url in urls: one pass of the loop body
ProcessUrl ==
  /\ url_pc = "loop"
  /\ next_url <= Len(urls)
  /\ \E answer \in SessionAnswers :
       LET url == urls[next_url]
           done == ProcessOne(url, answer)
       IN  /\ session_log' =
                IF validate_url(url)
                THEN Append(session_log, [ at |-> next_url, answer |-> answer ])
                ELSE session_log
           /\ IF done.exc = "None"
              THEN /\ results' = Append(results, done.result)
                   /\ next_url' = next_url + 1
                   /\ url_pc' = "loop"
              ELSE /\ results' = results
                   /\ next_url' = next_url
                   /\ url_pc' = "raised"
  /\ UNCHANGED << urls, orchVars, svcVars, clsVars, regVars, detVars,
                  logVars, lastVars >>

\* return results
ReturnResults ==
  /\ url_pc = "loop"
  /\ next_url > Len(urls)
  /\ url_pc' = "returned"
  /\ UNCHANGED << urls, next_url, results, session_log, orchVars, svcVars,
                  clsVars, regVars, detVars, logVars, lastVars >>

NextUrls ==
  \/ ProcessUrl
  \/ ReturnResults

SpecUrls == InitUrls /\ [][NextUrls]_vars

\* the session's answer to the request for the url at position i, if the
\* request was made
AnswersAt(i) ==
  { session_log[k].answer : k \in { k \in 1..Len(session_log) :
                                      session_log[k].at = i } }

\* C30: process_urls never raises and returns exactly one result per input,
\* in input order; an input of invalid format, a request that timed out or
\* could not connect and an error status each give a result with is_valid
\* false and an error message, and a result is valid only for a well-formed
\* URL answered with a success status.
C30_OneResultPerUrl ==
  /\ url_pc # "raised"
  /\ url_pc = "returned" =>
       /\ Len(results) = Len(urls)
       /\ \A i \in 1..Len(urls) :
            /\ results[i].requested_url = urls[i]
            /\ ~ validate_url(urls[i]) =>
                 /\ ~ results[i].is_valid
                 /\ results[i].error_message.text = "Invalid URL format"
            /\ \A answer \in AnswersAt(i) :
                 /\ (answer.exc # "None"
                       \/ answer.status_code \notin SuccessStatus) =>
                      /\ ~ results[i].is_valid
                      /\ results[i].error_message # NoMessage
                 /\ results[i].is_valid <=>
                      (answer.exc = "None"
                         /\ answer.status_code \in SuccessStatus)
            /\ results[i].is_valid =>
                 validate_url(urls[i]) /\ AnswersAt(i) # {}

\* process_urls returned for an invalid input followed by a URL whose request
\* failed with an exception that is no RequestException
C30_Witness ==
  /\ url_pc = "returned"
  /\ Len(urls) = 2
  /\ ~ validate_url(urls[1])
  /\ \E answer \in AnswersAt(2) : answer.exc = "ValueError"
  /\ ~ results[2].is_valid

\* C31: a result of process_urls is valid if and only if the URL has scheme
\* http or https and a host and the request, made without following
\* redirects, was answered with a status among 200, 301, 302, 307 and 308; a
\* redirect is reported with its own status; a 500, a timeout, the empty
\* string, a string without scheme and a URL without host are not valid.
C31_ValidIffSchemeHostAndStatus ==
  url_pc = "returned" =>
    \A i \in 1..Len(results) :
      LET url == urls[i]
          well_formed ==
            /\ url.is_str
            /\ Len(url.tokens) >= 2
            /\ url.tokens[2] \in { "://", ":" }
            /\ Lower(url.tokens[1]) \in { "http", "https" }
            /\ urlparse_netloc(url.tokens) # ""
          Answered(answer) ==
            /\ answer.exc = "None"
            /\ answer.status_code \in { 200, 301, 302, 307, 308 }
      IN  /\ results[i].is_valid <=>
               (well_formed /\ \E answer \in AnswersAt(i) : Answered(answer))
          /\ ~ well_formed => AnswersAt(i) = {}
          /\ \A answer \in AnswersAt(i) :
               /\ answer.exc = "None" =>
                    results[i].status_code = answer.status_code
               /\ answer.status_code \in { 301, 302, 307, 308 } =>
                    /\ results[i].is_valid
                    /\ results[i].status_code = answer.status_code
               /\ (answer.status_code = 500 \/ answer.exc = "Timeout") =>
                    ~ results[i].is_valid
          /\ (url.is_str /\ url.tokens \in { << >>, << "not-a-url" >>,
                                             << "https", "://" >> }) =>
               ~ results[i].is_valid

\* process_urls returned a valid result with status 301 for a redirect, and
\* results that are not valid for the empty string and for a 500
C31_Witness ==
  /\ url_pc = "returned"
  /\ \E i \in 1..Len(results) :
       /\ results[i].is_valid
       /\ results[i].status_code = 301
       /\ \E answer \in AnswersAt(i) : answer.status_code = 301
  /\ \E i \in 1..Len(results) :
       /\ ~ results[i].is_valid
       /\ \/ urls[i].tokens = << >> /\ urls[i].is_str
          \/ \E answer \in AnswersAt(i) : answer.status_code = 500

(***************************************************************************)
(* BrowserManager.click_consent_button (src/browser_manager.py) on its     *)
(* own: the provider, the action and what the DOM holds for each button id *)
(* are the inputs; one step is one pass of the loop over the button ids.   *)
(***************************************************************************)
\* what the DOM holds for an element id: no such element (find_element
\* raises NoSuchElementException), a lookup that raises another exception,
\* an element that is not displayed, one whose is_displayed raises, one that
\* is displayed and takes the click, one that is displayed and whose click
\* raises
ElementStates ==
  { "missing", "find_raises", "hidden", "stale", "displayed", "click_raises" }

\* provider.reject_button_ids if action == 'reject' else
\* provider.accept_button_ids
ButtonIds(prov, action) ==
  IF action = "reject" THEN Providers[prov].reject_button_ids
  ELSE Providers[prov].accept_button_ids

\* the loop body that goes on to the next id after a click
try_button_no_return(status, el) ==
  CASE el \in { "missing", "hidden" } -> [ status |-> status, stop |-> FALSE ]
    [] el = "displayed" ->
         [ status |-> [status EXCEPT !.button_found = TRUE,
                                     !.success = TRUE],
           stop |-> FALSE ]
    [] el = "click_raises" ->
         [ status |-> [status EXCEPT !.button_found = TRUE,
                                     !.error = "Error clicking button"],
           stop |-> TRUE ]
    [] OTHER ->
         [ status |-> [status EXCEPT !.error = "Error clicking button"],
           stop |-> TRUE ]

\* click_consent_button, the loop body for one button id: the result
\* dictionary after it and whether the function returns from inside the loop
try_button(status, el) ==
  CASE el \in { "missing", "hidden" } -> [ status |-> status, stop |-> FALSE ]
    [] el = "displayed" ->
         [ status |-> [status EXCEPT !.button_found = TRUE,
                                     !.success = TRUE],
           stop |-> TRUE ]
    [] el = "click_raises" ->
         [ status |-> [status EXCEPT !.button_found = TRUE,
                                     !.error = "Error clicking button"],
           stop |-> TRUE ]
    [] OTHER ->
         [ status |-> [status EXCEPT !.error = "Error clicking button"],
           stop |-> TRUE ]

\* a loop that ends without a word when no button was found
after_loop_silent(status) == status

\* click_consent_button after the loop:
\* if not result['button_found']: result['error'] = "No visible ... found"
after_loop(status) ==
  IF ~ status.button_found
  THEN [status EXCEPT !.error = "No visible button found"]
  ELSE status

\* _capture_post_consent_state: ConsentAction(action_performed=True, ...)
ConsentActionOf(status) ==
  [ action_performed |-> TRUE, action_successful |-> status.success,
    button_found |-> status.button_found, error |-> status.error ]

InitClick ==
  /\ OrchestratorIdle
  /\ ClassifierIdle
  /\ RegistryIdle
  /\ DetectIdle
  /\ CaptureIdle
  /\ UrlProcessorIdle
  /\ ReplayIdle
  /\ SessionIdle
  /\ \E prov \in Range(ProviderKeys) \cup { NoProvider },
        action \in { "accept", "reject" } :
       \E dom \in (IF prov = NoProvider THEN { << >> }
                   ELSE [ Range(ButtonIds(prov, action)) -> ElementStates ]) :
         consent_call = [ provider |-> prov, action |-> action, dom |-> dom ]
  /\ button_at = 0
  /\ consent_status = [ action |-> "", success |-> FALSE, error |-> "None",
                        button_found |-> FALSE ]
  /\ tried = << >>
  /\ consent_action = << >>
  /\ click_pc = "called"

\* result = {...}; button_ids = provider.reject_button_ids if ... : reading
\* the ids of no provider raises, and the outer handler records the error
ClickStart ==
  /\ click_pc = "called"
  /\ IF consent_call.provider = NoProvider
     THEN /\ consent_status' =
               [ action |-> consent_call.action, success |-> FALSE,
                 error |-> "Error in consent flow", button_found |-> FALSE ]
          /\ button_at' = button_at
          /\ click_pc' = "returned"
     ELSE /\ consent_status' =
               [ action |-> consent_call.action, success |-> FALSE,
                 error |-> "None", button_found |-> FALSE ]
          /\ button_at' = 1
          /\ click_pc' = "loop"
  /\ UNCHANGED << consent_call, tried, consent_action, orchVars, svcVars,
                  clsVars, regVars, detVars, logVars, urlVars, replayVars, sessVars >>

\* for button_id in button_ids: find_element, is_displayed, click
TryButton ==
  /\ click_pc = "loop"
  /\ button_at <= Len(ButtonIds(consent_call.provider, consent_call.action))
  /\ LET button_id ==
           ButtonIds(consent_call.provider, consent_call.action)[button_at]
         el == consent_call.dom[button_id]
         done == try_button(consent_status, el)
         Command(op) == [ op |-> op, id |-> button_id, at |-> button_at ]
     IN  /\ tried' = tried
              \o << Command("find") >>
              \o (IF el \in { "hidden", "stale", "displayed", "click_raises" }
                  THEN << Command("is_displayed") >> ELSE << >>)
              \o (IF el \in { "displayed", "click_raises" }
                  THEN << Command("click") >> ELSE << >>)
         /\ consent_status' = done.status
         /\ IF done.stop
            THEN /\ click_pc' = "returned"
                 /\ button_at' = button_at
            ELSE /\ click_pc' = "loop"
                 /\ button_at' = button_at + 1
  /\ UNCHANGED << consent_call, consent_action, orchVars, svcVars, clsVars,
                  regVars, detVars, logVars, urlVars, replayVars, sessVars >>

\* the loop is through: if not result['button_found']: ...; return result
AfterLoop ==
  /\ click_pc = "loop"
  /\ button_at > Len(ButtonIds(consent_call.provider, consent_call.action))
  /\ consent_status' = after_loop(consent_status)
  /\ click_pc' = "returned"
  /\ UNCHANGED << consent_call, button_at, tried, consent_action, orchVars,
                  svcVars, clsVars, regVars, detVars, logVars, urlVars,
                  replayVars, sessVars >>

\* flow.consent = ConsentAction(action_performed=True, ...)
StoreConsent ==
  /\ click_pc = "returned"
  /\ consent_action' = << ConsentActionOf(consent_status) >>
  /\ click_pc' = "stored"
  /\ UNCHANGED << consent_call, button_at, consent_status, tried, orchVars,
                  svcVars, clsVars, regVars, detVars, logVars, urlVars,
                  replayVars, sessVars >>

NextClick ==
  \/ ClickStart
  \/ TryButton
  \/ AfterLoop
  \/ StoreConsent

SpecClick == InitClick /\ [][NextClick]_vars

\* C32: the consent click takes the first visible of the provider's accept
\* (or reject) element ids in list order: at most one element is clicked per
\* call, it is the first id of the list whose element exists and is
\* displayed, ids that are missing or not displayed are passed over, and no
\* id after the clicked one is tried.
C32_FirstVisibleWins ==
  LET ids == ButtonIds(consent_call.provider, consent_call.action)
      Visible(k) == consent_call.dom[ids[k]] \in { "displayed", "click_raises" }
      PassedOver(k) == consent_call.dom[ids[k]] \in { "missing", "hidden" }
      clicks == { i \in 1..Len(tried) : tried[i].op = "click" }
      looked == { tried[i].at : i \in 1..Len(tried) }
  IN  /\ Cardinality(clicks) <= 1
      /\ \A i \in clicks :
           /\ tried[i].id = ids[tried[i].at]
           /\ Visible(tried[i].at)
           /\ \A j \in 1..(tried[i].at - 1) : ~ Visible(j) /\ PassedOver(j)
           /\ \A k \in looked : k <= tried[i].at
           /\ i = Len(tried)
      /\ click_pc \in { "returned", "stored" } =>
           \A k \in looked :
             PassedOver(k) =>
               /\ \A i \in clicks : tried[i].at # k
               /\ k < Len(ids) => (k + 1) \in looked
      /\ consent_status.success =>
           \E i \in clicks : consent_call.dom[tried[i].id] = "displayed"

\* the first two ids were passed over, one missing and one hidden, and the
\* third was clicked
C32_Witness ==
  /\ click_pc = "stored"
  /\ Len(tried) = 6
  /\ consent_call.dom[tried[1].id] = "missing"
  /\ consent_call.dom[tried[2].id] = "hidden"
  /\ tried[6].op = "click" /\ tried[6].at = 3
  /\ consent_status.success

\* C38: the outcome of every consent click is consistent: success implies
\* button_found, and the error is null exactly when the click succeeded; a
\* call that finds no visible control, or whose click raises, returns no
\* success and an error.
C38_ConsentOutcomeConsistent ==
  /\ click_pc = "returned" =>
       /\ consent_status.success => consent_status.button_found
       /\ consent_status.error = "None" <=> consent_status.success
       /\ (\A i \in 1..Len(tried) : tried[i].op # "click") =>
            ~ consent_status.success /\ consent_status.error # "None"
       /\ (\E i \in 1..Len(tried) :
             /\ tried[i].op = "click"
             /\ consent_call.dom[tried[i].id] = "click_raises") =>
            ~ consent_status.success /\ consent_status.error # "None"
  /\ consent_action # << >> =>
       /\ consent_action[1].action_performed
       /\ consent_action[1].action_successful = consent_status.success
       /\ consent_action[1].action_successful => consent_action[1].button_found
       /\ consent_action[1].error = "None"
            <=> consent_action[1].action_successful

\* a call that went through every id and found no visible control, stored
C38_Witness ==
  /\ click_pc = "stored"
  /\ consent_call.provider # NoProvider
  /\ button_at > Len(ButtonIds(consent_call.provider, consent_call.action))
  /\ ~ consent_action[1].action_successful
  /\ ~ consent_action[1].button_found
  /\ consent_action[1].error = "No visible button found"

(***************************************************************************)
(* Properties of the two branches of create_result.                        *)
(***************************************************************************)
\* C33: in each branch the stored sample links are replayed only after that
\* branch's consent click succeeded; when the click failed or no control was
\* found, no sample link is clicked and the branch's interactions stay
\* empty, but the branch's final cookies and network state are still
\* captured.
C33_ReplayOnlyAfterClick ==
  LET SessionOf(action) == IF action = "accept" THEN 1 ELSE 2
      Links(s) == { j \in 1..Len(hist) :
                      hist[j].ev = "link" /\ hist[j].session = s }
      Finished(action) ==
        /\ result.bound
        /\ Flow(action).consent.action_performed
        /\ pc \notin { PcOf(action, "replay"), PcOf(action, "capture") }
  IN  \A action \in { "accept", "reject" } :
        /\ \A j \in Links(SessionOf(action)) :
             \E i \in 1..(j - 1) :
               /\ hist[i].ev = action
               /\ hist[i].session = SessionOf(action)
        /\ (result.bound /\ Flow(action).consent.action_performed
              /\ ~ Flow(action).consent.action_successful) =>
             /\ Links(SessionOf(action)) = {}
             /\ Flow(action).interactions = << >>
        /\ (Finished(action) /\ ~ Flow(action).consent.action_successful) =>
             Flow(action).captured

\* C34: in the reject branch the provider is detected again in the fresh
\* session, after the re-visit and before the reject control is clicked; the
\* reject click is issued only when that detection ran and found the
\* provider.
C34_RejectRedetects ==
  (result.bound /\ result.reject_flow.consent.action_performed) =>
    \E v, d \in 1..Len(hist) :
      /\ v < d
      /\ hist[v].ev = "visit" /\ hist[v].session = browser
      /\ hist[d].ev = "detect" /\ hist[d].session = browser
      /\ \A j \in 1..Len(hist) : hist[j].ev = "reject" => d < j
      /\ provider # NoProvider

(***************************************************************************)
(* BrowserManager.restore_elements and perform_interaction_sequence        *)
(* (src/browser_manager.py) on their own: the links stored in the first    *)
(* session and the anchors of the page in the fresh session are the        *)
(* inputs.  An element handle is the session it was found in and the       *)
(* position of the anchor in that session's document.                      *)
(***************************************************************************)
LinkHrefs == { "/about", "/about/team" }
LinkTexts == { "About", "Team" }

\* contains(@href, href) of the XPath
HrefContains(anchor_href, href) ==
  \/ anchor_href = href
  \/ anchor_href = "/about/team" /\ href = "/about"

\* the links find_meaningful_clickables stored in session 1
StoredLinks ==
  { [ element |-> [ session |-> 1, at |-> 1 ], text |-> text, href |-> href,
      opens_new_tab |-> FALSE ] : text \in LinkTexts, href \in LinkHrefs }

\* the anchors a document can hold
DomAnchors ==
  [ href : LinkHrefs, text : LinkTexts, visible : BOOLEAN ]

\* driver.find_element(By.XPATH, "//a[contains(@href,'...')]"): the position
\* of the first anchor of the document whose href contains the given one, 0
\* for NoSuchElementException
find_element_by_href(dom, href) ==
  LET hits == { i \in 1..Len(dom) : HrefContains(dom[i].href, href) }
  IN  IF hits = {} THEN 0 ELSE CHOOSE i \in hits : \A j \in hits : i <= j

\* BrowserManager.restore_elements in session s: the stored links whose
\* element was found, displayed and enabled, each with the element found
RECURSIVE restore_elements_in(_, _, _)
restore_elements_in(dom, element_info_list, s) ==
  IF element_info_list = << >> THEN << >>
  ELSE LET info == Head(element_info_list)
           at == find_element_by_href(dom, info.href)
           rest == restore_elements_in(dom, Tail(element_info_list), s)
       IN  IF at # 0 /\ dom[at].visible
           THEN << [ element |-> [ session |-> s, at |-> at ],
                     text |-> info.text, href |-> info.href,
                     opens_new_tab |-> info.opens_new_tab ] >> \o rest
           ELSE rest

\* _capture_post_consent_state after a successful reject click with stored
\* links: the fresh session is session 2
InitReplay ==
  /\ OrchestratorIdle
  /\ ClassifierIdle
  /\ RegistryIdle
  /\ DetectIdle
  /\ CaptureIdle
  /\ UrlProcessorIdle
  /\ ClickIdle
  /\ SessionIdle
  /\ stored_links \in SeqsUpTo(StoredLinks, MaxAnchors) \ { << >> }
  /\ fresh_dom \in SeqsUpTo(DomAnchors, MaxDomAnchors)
  /\ restored_elements = << >>
  /\ replayed = << >>
  /\ replay_pc = "called"

\* self.browser.restore_elements(self.stored_elements)
RestoreElements ==
  /\ replay_pc = "called"
  /\ restored_elements' = restore_elements_in(fresh_dom, stored_links, 2)
  /\ replay_pc' = "restored"
  /\ UNCHANGED << stored_links, fresh_dom, replayed, orchVars, svcVars,
                  clsVars, regVars, detVars, logVars, urlVars, clickVars, sessVars >>

\* perform_interaction_sequence, one pass of the loop over
\* self.stored_elements: the element of the entry is clicked
PerformInteraction ==
  /\ replay_pc = "restored"
  /\ Len(replayed) < Len(restored_elements)
  /\ replayed' = Append(replayed, restored_elements[Len(replayed) + 1])
  /\ UNCHANGED << stored_links, fresh_dom, restored_elements, replay_pc,
                  orchVars, svcVars, clsVars, regVars, detVars, logVars,
                  urlVars, clickVars, sessVars >>

\* return interaction_results
ReturnInteractions ==
  /\ replay_pc = "restored"
  /\ Len(replayed) = Len(restored_elements)
  /\ replay_pc' = "returned"
  /\ UNCHANGED << stored_links, fresh_dom, restored_elements, replayed,
                  orchVars, svcVars, clsVars, regVars, detVars, logVars,
                  urlVars, clickVars, sessVars >>

NextReplay ==
  \/ RestoreElements
  \/ PerformInteraction
  \/ ReturnInteractions

SpecReplay == InitReplay /\ [][NextReplay]_vars

\* C35: every sample link replayed in a branch is resolved against the DOM
\* of the session current at replay time, to an anchor whose href and text
\* both equal the stored link's; no element handle obtained before the
\* session reset is clicked after it, and a stored link with no such anchor
\* in the fresh DOM is not replayed.
C35_ReplayMatchesHrefAndText ==
  LET Matches(anchor, link) ==
        anchor.href = link.href /\ anchor.text = link.text
  IN  /\ \A i \in 1..Len(replayed) :
           /\ replayed[i].element.session = 2
           /\ replayed[i].element.at \in 1..Len(fresh_dom)
           /\ Matches(fresh_dom[replayed[i].element.at], replayed[i])
      /\ \A k \in 1..Len(stored_links) :
           (\A a \in 1..Len(fresh_dom) :
              ~ Matches(fresh_dom[a], stored_links[k])) =>
             \A i \in 1..Len(replayed) :
               ~ ( /\ replayed[i].href = stored_links[k].href
                   /\ replayed[i].text = stored_links[k].text )

(***************************************************************************)
(* One BrowserManager through several visits and captures                  *)
(* (src/browser_manager.py): visit_url and _get_network_requests work on   *)
(* network_logs and request_cookie_map.  request_cookie_map holds          *)
(* references to NetworkRequest objects; a reference names the capture     *)
(* that created the object and its position in that capture's list.        *)
(* create_result captures only after a visit_url that returned True.       *)
(***************************************************************************)
NoRef == [ capture |-> 0, at |-> 0 ]

\* the entries the driver delivers here: the request events without a call
\* stack and the responses with cookie headers
SessionEntries ==
  { e \in LogEntries :
      /\ e.well_formed
      /\ \/ e.method = "Network.requestWillBeSent" /\ ~ e.initiator.has_stack
         \/ e.method = "Network.responseReceived" /\ e.headers.present }

\* _get_network_requests, the first pass of capture n from entry i on: acc
\* holds the list built so far, request_cookie_map and the NetworkRequest
\* objects of the earlier captures
RECURSIVE FirstPassRefs(_, _, _, _)
FirstPassRefs(logs, i, acc, n) ==
  IF i > Len(logs) THEN acc
  ELSE FirstPassRefs(logs, i + 1,
         IF /\ logs[i].well_formed
            /\ logs[i].method = "Network.requestWillBeSent"
         THEN [acc EXCEPT
                 !.network_requests = Append(@, NetworkRequestOf(logs[i])),
                 !.request_cookie_map[logs[i].requestId] =
                    [ capture |-> n, at |-> Len(acc.network_requests) + 1 ]]
         ELSE acc, n)

\* the second pass: request.sets_cookies = cookies_set on the object the
\* map refers to, which is in the list being built or in an earlier one
RECURSIVE SecondPassRefs(_, _, _, _)
SecondPassRefs(logs, i, acc, n) ==
  IF i > Len(logs) THEN acc
  ELSE LET e == logs[i]
           ref == acc.request_cookie_map[e.requestId]
       IN  SecondPassRefs(logs, i + 1,
             IF ~ ( /\ e.well_formed
                    /\ e.method = "Network.responseReceived"
                    /\ ref # NoRef
                    /\ e.headers.present )
             THEN acc
             ELSE IF ref.capture = n
             THEN [acc EXCEPT !.network_requests[ref.at].sets_cookies =
                     CookiesSet(e.headers,
                                acc.network_requests[ref.at].domain)]
             ELSE [acc EXCEPT !.heap[ref.capture][ref.at].sets_cookies =
                     CookiesSet(e.headers,
                                acc.heap[ref.capture][ref.at].domain)],
             n)

\* BrowserManager._get_network_requests as capture n over network_logs
GetNetworkRequests(logs, map, heap, n) ==
  SecondPassRefs(logs, 1,
    FirstPassRefs(logs, 1, [ network_requests |-> << >>,
                             request_cookie_map |-> map, heap |-> heap ], n),
    n)

InitSession ==
  /\ OrchestratorIdle
  /\ ClassifierIdle
  /\ RegistryIdle
  /\ DetectIdle
  /\ UrlProcessorIdle
  /\ ClickIdle
  /\ ReplayIdle
  /\ driver = [ performance_log |-> << >>, initial_cookies |-> << >>,
                final_cookies |-> << >> ]
  /\ session = [ current_page_domain |-> "None", provider |-> NoProvider ]
  /\ network_logs = << >>
  /\ request_cookie_map = [ id \in RequestIds |-> NoRef ]
  /\ page_state = << >>
  /\ log_errors = 0
  /\ post_flow = InitInteractionState
  /\ flow_errors = << >>
  /\ analysis = << >>
  /\ visits = 0
  /\ visit_ok = FALSE
  /\ captures = << >>

\* self.browser.visit_url(url_result.destination_url)
SessionVisit ==
  /\ visits < MaxCalls
  /\ \E outcome \in { "ok", "get_failed", "load_timeout" } :
       LET mgr == [NewManager EXCEPT
                     !.network_logs = network_logs,
                     !.current_page_domain = session.current_page_domain]
           after == visit_url(mgr, "www.example.com", outcome)
       IN  /\ network_logs' = after.network_logs
           /\ session' = [session EXCEPT
                            !.current_page_domain = after.current_page_domain]
           /\ visit_ok' = (outcome = "ok")
  /\ visits' = visits + 1
  /\ UNCHANGED << captures, driver, request_cookie_map, page_state,
                  log_errors, post_flow, flow_errors, analysis, orchVars,
                  svcVars, clsVars, regVars, detVars, urlVars, clickVars,
                  replayVars >>

\* the number of entries the first b captures fetched from the driver
RECURSIVE Fetched(_)
Fetched(b) ==
  IF b = 0 THEN 0 ELSE Fetched(b - 1) + Len(captures[b].fetched)

\* state.network_requests = self._get_network_requests(), in a call that
\* went on after visit_url returned True: logs = driver.get_log(...);
\* self.network_logs.extend(logs); the two passes
SessionCapture ==
  /\ visit_ok
  /\ Len(captures) < MaxCaptures
  /\ \E logs \in SeqsUpTo(SessionEntries, MaxLogEntries - Fetched(Len(captures))) :
       LET n == Len(captures) + 1
           got == GetNetworkRequests(network_logs \o logs, request_cookie_map,
                    [ k \in 1..Len(captures) |-> captures[k].requests ], n)
       IN  /\ network_logs' = network_logs \o logs
           /\ request_cookie_map' = got.request_cookie_map
           /\ captures' =
                [ k \in 1..Len(captures) |->
                    [captures[k] EXCEPT !.requests = got.heap[k]] ]
                \o << [ visit |-> visits, fetched |-> logs,
                        returned |-> got.network_requests,
                        requests |-> got.network_requests ] >>
  /\ UNCHANGED << visits, visit_ok, driver, session, page_state, log_errors,
                  post_flow, flow_errors, analysis, orchVars, svcVars,
                  clsVars, regVars, detVars, urlVars, clickVars, replayVars >>

NextSession ==
  \/ SessionVisit
  \/ SessionCapture

SpecSession == InitSession /\ [][NextSession]_vars

\* C36: within one browser session the event log state capture works on is
\* append-only between visits and emptied by each visit: every request
\* record a capture produced also appears in every later capture made
\* before the next visit_url, and nothing stored for an earlier visit, log
\* entries or request-id index, influences a capture made after a later
\* visit_url: it returns what a new BrowserManager would return for the
\* entries delivered since that visit.
C36_LogPerVisit ==
  LET SameRequest(r, q) ==
        /\ r.request_id = q.request_id
        /\ r.url = q.url
        /\ r.timestamp = q.timestamp
      RECURSIVE Delivered(_, _)
      Delivered(v, b) ==
        IF b = 0 THEN << >>
        ELSE Delivered(v, b - 1)
               \o (IF captures[b].visit = v THEN captures[b].fetched
                   ELSE << >>)
      OnNewManager(logs) ==
        GetNetworkRequests(logs, [ id \in RequestIds |-> NoRef ], << >>, 1)
          .network_requests
  IN  /\ \A a, b \in 1..Len(captures) :
           (a < b /\ captures[a].visit = captures[b].visit) =>
             /\ Len(captures[a].returned) <= Len(captures[b].returned)
             /\ \A i \in 1..Len(captures[a].returned) :
                  SameRequest(captures[a].returned[i],
                              captures[b].returned[i])
      /\ \A b \in 1..Len(captures) :
           captures[b].returned
             = OnNewManager(Delivered(captures[b].visit, b))
      /\ visit_ok => network_logs = Delivered(visits, Len(captures))

\* a capture after the second visit met the response to a request of the
\* first visit: request_cookie_map still led to the old NetworkRequest,
\* which took the cookies, and the capture returned the new request alone
C36_Witness ==
  /\ Len(captures) = 2
  /\ captures[1].visit = 1
  /\ captures[2].visit = 2
  /\ Len(captures[1].returned) = 1
  /\ captures[1].returned[1].sets_cookies = << >>
  /\ captures[1].requests[1].sets_cookies # << >>
  /\ Len(captures[2].returned) = 1
  /\ captures[2].returned[1].request_id # captures[1].returned[1].request_id
  /\ captures[2].returned[1].sets_cookies = << >>

\* C37: a PhaseState is immutable once captured: the accept branch, the
\* session reset and the reject branch leave the pre-consent PhaseState
\* stored in the result as it was (cookies, requests, chains and their
\* classification fields), and the reject branch leaves the accept
\* PhaseState as it was.
C37_PhaseStateImmutable ==
  [][ /\ (result.bound /\ result.page_landing.state # << >>) =>
           result'.page_landing = result.page_landing
      /\ (result.bound
            /\ pc \in { "reset_cleanup", "reset_construct", "reject_visit",
                        "reject_click", "reject_replay", "reject_capture",
                        "finalize", "returned", "except" }) =>
           result'.accept_flow = result.accept_flow ]_vars

\* the three phases were captured one after the other with different
\* cookies
C37_Witness ==
  /\ Returned
  /\ result.page_landing.state # << >>
  /\ result.accept_flow.captured
  /\ result.reject_flow.captured
  /\ result.page_landing.state[1].cookies # << >>
  /\ result.accept_flow.cookies = << >>
  /\ result.reject_flow.cookies # << >>

\* C39: in every result create_result returns, a reject click that was
\* performed implies an accept click that was performed, which implies
\* banner_found: the reject control is never exercised unless the accept
\* branch ran first, and neither branch runs without a detected provider.
C39_RejectImpliesAcceptImpliesBanner ==
  (Returned /\ result.bound) =>
    /\ result.reject_flow.consent.action_performed =>
         result.accept_flow.consent.action_performed
    /\ result.accept_flow.consent.action_performed =>
         result.ccm_detection.banner_found
    /\ (\E j \in 1..Len(hist) : hist[j].ev = "reject") =>
         result.accept_flow.consent.action_performed
    /\ result.accept_flow.consent.action_performed => provider # NoProvider

\* a returned result in which the reject click was performed after an accept
\* click that found no control
C39_Witness ==
  /\ Returned
  /\ result.reject_flow.consent.action_performed
  /\ result.reject_flow.consent.action_successful
  /\ result.accept_flow.consent.action_performed
  /\ ~ result.accept_flow.consent.button_found
  /\ result.ccm_detection.banner_found
====
